---- MODULE Spec2Model ----
(***************************************************************************)
(* A model of the segmentation core of lolg/soda: the pipeline Context,    *)
(* the pipeline runner, the eight pipeline steps, the SegmentBuilder, the  *)
(* two opportunity formulas, the Orchestrator and its parameter sweeps,    *)
(* the SegmentationSelector and the zone classifier.                       *)
(*                                                                         *)
(* Python values are tagged records ([type |-> "int", v |-> 3]), so that   *)
(* values of different Python types can be compared.  Real numbers are     *)
(* fixed-point integers in thousandths (12.5 is 12500); ratings are plain  *)
(* integers.  The numeric libraries (StandardScaler, PCA, KMeans,          *)
(* silhouette) are not computed: a call yields any result the library's    *)
(* contract allows for the arguments, chosen with \E.                      *)
(***************************************************************************)
EXTENDS Integers, Sequences, FiniteSets, TLC

VARIABLES
    ctx,        \* a free-standing Context driven by a client (SpecCtx)
    ctxRes,     \* what the last call on ctx did
    cfg,        \* SegmentBuilder: the constructor's parameters
    fitted,     \* SegmentBuilder._fitted
    context,    \* SegmentBuilder._context (PyNone or a Context)
    pc,         \* where the builder is: "idle", or inside fit: "run"
    arg,        \* the argument of the current or last fit call
    stepIdx,    \* run_pipeline: index of the next step of the pipeline
    ran,        \* names of the steps that step.run was called on, this fit
    outcome,    \* how the last fit call ended
    nFit,       \* number of fit calls so far
    nCtx,       \* number of Context() objects constructed by fit so far
    everFit,    \* some fit call has completed successfully
    szIn,       \* SpecSizes: the segmentId column of a labelled table
    szOut,      \* SpecSizes: the size percentages computed from szIn
    opIn,       \* a call of one operation on its own: the operation, its arguments
    opOut       \* its result

ctxVars == <<ctx, ctxRes>>
builderVars == <<cfg, fitted, context, pc, arg, stepIdx, ran, outcome, nFit, nCtx,
                 everFit>>
szVars == <<szIn, szOut>>
opVars == <<opIn, opOut>>
vars == <<ctx, ctxRes, cfg, fitted, context, pc, arg, stepIdx, ran, outcome,
          nFit, nCtx, everFit, szIn, szOut, opIn, opOut>>

----------------------------------------------------------------------------
(* Python values *)

PyNone == [type |-> "NoneType"]
PyInt(n) == [type |-> "int", v |-> n]
PyList(s) == [type |-> "list", v |-> s]
PyBool(b) == [type |-> "bool", v |-> b]

\* no exception was raised
NoErr == [type |-> "none"]
Raised(t, m) == [type |-> t, msg |-> m]

Max(a, b) == IF a >= b THEN a ELSE b
Min(a, b) == IF a <= b THEN a ELSE b
Abs(a) == IF a >= 0 THEN a ELSE 0 - a
Range(s) == {s[i] : i \in DOMAIN s}

RECURSIVE SumSeq(_)
SumSeq(s) == IF s = <<>> THEN 0 ELSE s[1] + SumSeq(Tail(s))

----------------------------------------------------------------------------
(* soda/pipeline/keys.py *)

DERIVED_TABLE_IMPORTANCE_STD == "DERIVED_TABLE_IMPORTANCE_STD"
STATE_PARAM_N_COMPONENTS == "STATE_PARAM_N_COMPONENTS"
DERIVED_TABLE_PCA_LOADINGS == "DERIVED_TABLE_PCA_LOADINGS"
DERIVED_LIST_KEY_OUTCOMES == "DERIVED_LIST_KEY_OUTCOMES"
DERIVED_TABLE_RESPONSES_FILTERED_OPP == "DERIVED_TABLE_RESPONSES_FILTERED_OPP"
DERIVED_TABLE_RESPONSES_OPP == "DERIVED_TABLE_RESPONSES_OPP"
DERIVED_TABLE_RESPONSES_WIDE_SEG == "DERIVED_TABLE_RESPONSES_WIDE_SEG"
GEN_TABLE_SEGMENT_OUTCOME_T2B == "GEN_TABLE_SEGMENT_OUTCOME_T2B"
GEN_TABLE_SEGMENT_SIZES == "GEN_TABLE_SEGMENT_SIZES"

----------------------------------------------------------------------------
(* juno/core/schema.py: column names.  A column name is a record: its      *)
(* prefix and the outcome id after the last "_" (0 for a name without).    *)

RESPONDENT_ID == [prefix |-> "respondentId", id |-> 0]
SEGMENT_ID == [prefix |-> "segmentId", id |-> 0]
IMPORTANCE_PREFIX == "outcomeImportance_"
SATISFACTION_PREFIX == "outcomeSatisfaction_"
OPPORTUNITY_PREFIX == "opportunity_"
PRIMARY_COMPONENT_PREFIX == "pc_"

importance_col(i) == [prefix |-> IMPORTANCE_PREFIX, id |-> i]
satisfaction_col(i) == [prefix |-> SATISFACTION_PREFIX, id |-> i]
primary_component_col(i) == [prefix |-> PRIMARY_COMPONENT_PREFIX, id |-> i]
is_importance(col) == col.prefix = IMPORTANCE_PREFIX
is_satisfaction(col) == col.prefix = SATISFACTION_PREFIX
is_opportunity(col) == col.prefix = OPPORTUNITY_PREFIX
\* str.replace(IMPORTANCE_PREFIX, ...): a name without the prefix is unchanged
corresponding_satisfaction(col) ==
    IF col.prefix = IMPORTANCE_PREFIX THEN [col EXCEPT !.prefix = SATISFACTION_PREFIX] ELSE col
corresponding_opportunity(col) ==
    IF col.prefix = IMPORTANCE_PREFIX THEN [col EXCEPT !.prefix = OPPORTUNITY_PREFIX] ELSE col

MIN_OUTCOME_RATING == 1
MAX_OUTCOME_RATING == 5
validate_threshold(value) == MIN_OUTCOME_RATING <= value /\ value <= MAX_OUTCOME_RATING

----------------------------------------------------------------------------
(* pandas.DataFrame: the column names in order and the rows in order; a    *)
(* row maps each column name to its value.                                 *)

\* pd.DataFrame(..., index=index)
DataFrameIdx(columns, rows, index) ==
    [type |-> "DataFrame", columns |-> columns, rows |-> rows, index |-> index]
\* the default index: 0, 1, ...
RangeIndex(rows) == [i \in DOMAIN rows |-> i - 1]
DataFrame(columns, rows) == DataFrameIdx(columns, rows, RangeIndex(rows))
IsDataFrame(x) == x.type = "DataFrame"
\* DataFrame.empty: some axis has length 0
DfEmpty(df) == Len(df.columns) = 0 \/ Len(df.rows) = 0
HasColumn(df, col) == col \in Range(df.columns)
\* [c for c in df.columns if P(c)]
ImportanceColumns(df) == SelectSeq(df.columns, is_importance)
SatisfactionColumns(df) == SelectSeq(df.columns, is_satisfaction)
list_opportunity_columns(df) == SelectSeq(df.columns, is_opportunity)
\* df[col], as a sequence
Column(df, col) == [i \in DOMAIN df.rows |-> df.rows[i][col]]

----------------------------------------------------------------------------
(* soda/pipeline/context.py.  A Context is a record; a method gives the    *)
(* exception it raised (NoErr when none), the Context afterwards and, for  *)
(* a read, the value returned.                                             *)

NewContext == [responses |-> PyNone, tables |-> <<>>, state |-> <<>>]

Put(f, k, v) == [x \in (DOMAIN f) \cup {k} |-> IF x = k THEN v ELSE f[x]]

set_state(c, key, value) ==
    IF key \in DOMAIN c.state
    THEN [err |-> Raised("KeyError", "State key already exists"), ctx |-> c]
    ELSE IF value = PyNone
    THEN [err |-> Raised("KeyError", "State value cannot be None"), ctx |-> c]
    ELSE [err |-> NoErr, ctx |-> [c EXCEPT !.state = Put(c.state, key, value)]]

require_state(c, key) ==
    IF key \notin DOMAIN c.state
    THEN [err |-> Raised("KeyError", "Required state key not found in context"), value |-> PyNone]
    ELSE [err |-> NoErr, value |-> c.state[key]]

require_table(c, key) ==
    IF key \notin DOMAIN c.tables
    THEN [err |-> Raised("KeyError", "Required table key not found in context"), value |-> PyNone]
    ELSE [err |-> NoErr, value |-> c.tables[key]]

require_primary(c) ==
    IF c.responses = PyNone
    THEN [err |-> Raised("ValueError", "Primary DataFrame is not set"), value |-> PyNone]
    ELSE IF ~IsDataFrame(c.responses)
    THEN [err |-> Raised("TypeError", "Primary must be a pandas DataFrame"), value |-> PyNone]
    ELSE IF DfEmpty(c.responses)
    THEN [err |-> Raised("ValueError", "Primary DataFrame is empty"), value |-> PyNone]
    ELSE [err |-> NoErr, value |-> c.responses]

set_primary(c, df) ==
    IF ~IsDataFrame(df)
    THEN [err |-> Raised("TypeError", "primary must be a pandas DataFrame"), ctx |-> c]
    ELSE [err |-> NoErr, ctx |-> [c EXCEPT !.responses = df]]

add_table(c, key, df) ==
    IF ~IsDataFrame(df)
    THEN [err |-> Raised("TypeError", "Table must be a pandas DataFrame"), ctx |-> c]
    ELSE [err |-> NoErr, ctx |-> [c EXCEPT !.tables = Put(c.tables, key, df)]]

----------------------------------------------------------------------------
(* A client that calls the methods of one Context in any order             *)

\* the keys and values the client uses
CtxStateKeys == {STATE_PARAM_N_COMPONENTS, DERIVED_LIST_KEY_OUTCOMES}
CtxTableKeys == {DERIVED_TABLE_IMPORTANCE_STD, DERIVED_TABLE_PCA_LOADINGS}
CtxFrames ==
    { DataFrame(<<RESPONDENT_ID>>, <<[c \in {RESPONDENT_ID} |-> i]>>) : i \in {1, 2} }
CtxStateValues == {PyInt(1), PyInt(2), PyNone}
CtxTableValues == CtxFrames \cup {PyList(<<>>)}

StateAt(c, key) == IF key \in DOMAIN c.state THEN c.state[key] ELSE PyNone
TableAt(c, key) == IF key \in DOMAIN c.tables THEN c.tables[key] ELSE PyNone

InitCtxVars ==
    /\ ctx = NewContext
    /\ ctxRes = [op |-> "new", key |-> "", err |-> NoErr, had |-> FALSE,
                 before |-> PyNone, after |-> PyNone, value |-> PyNone]

CtxSetState(key, value) ==
    LET r == set_state(ctx, key, value) IN
    /\ ctx' = r.ctx
    /\ ctxRes' = [op |-> "set_state", key |-> key, err |-> r.err,
                  had |-> key \in DOMAIN ctx.state,
                  before |-> StateAt(ctx, key), after |-> StateAt(r.ctx, key),
                  value |-> value]

CtxAddTable(key, df) ==
    LET r == add_table(ctx, key, df) IN
    /\ ctx' = r.ctx
    /\ ctxRes' = [op |-> "add_table", key |-> key, err |-> r.err,
                  had |-> key \in DOMAIN ctx.tables,
                  before |-> TableAt(ctx, key), after |-> TableAt(r.ctx, key),
                  value |-> df]

CtxRequireState(key) ==
    LET r == require_state(ctx, key) IN
    /\ ctx' = ctx
    /\ ctxRes' = [op |-> "require_state", key |-> key, err |-> r.err,
                  had |-> key \in DOMAIN ctx.state,
                  before |-> StateAt(ctx, key), after |-> StateAt(ctx, key),
                  value |-> r.value]

CtxRequireTable(key) ==
    LET r == require_table(ctx, key) IN
    /\ ctx' = ctx
    /\ ctxRes' = [op |-> "require_table", key |-> key, err |-> r.err,
                  had |-> key \in DOMAIN ctx.tables,
                  before |-> TableAt(ctx, key), after |-> TableAt(ctx, key),
                  value |-> r.value]

CtxSetPrimary(df) ==
    LET r == set_primary(ctx, df) IN
    /\ ctx' = r.ctx
    /\ ctxRes' = [op |-> "set_primary", key |-> "", err |-> r.err,
                  had |-> ctx.responses # PyNone,
                  before |-> ctx.responses, after |-> r.ctx.responses,
                  value |-> df]

CtxRequirePrimary ==
    LET r == require_primary(ctx) IN
    /\ ctx' = ctx
    /\ ctxRes' = [op |-> "require_primary", key |-> "", err |-> r.err,
                  had |-> ctx.responses # PyNone,
                  before |-> ctx.responses, after |-> ctx.responses,
                  value |-> r.value]

----------------------------------------------------------------------------
(* juno/pipeline/opportunity.py *)

\* a variant that leaves out the clamp at zero
compute_individual_opportunity_unclamped(importance, satisfaction) ==
    importance + (importance - satisfaction)

compute_individual_opportunity(importance, satisfaction) ==
    importance + Max(importance - satisfaction, 0)

\* 100 per cent, in thousandths
HundredPct == 100 * 1000

\* a variant that range-checks the importance only
compute_aggregate_opportunity_half_checked(importance_t2b, satisfaction_t2b) ==
    IF ~(0 <= importance_t2b /\ importance_t2b <= 100 * 1000)
    THEN [err |-> Raised("ValueError", "T2B percentages must be 0-100"), value |-> 0]
    ELSE LET imp_scaled == importance_t2b \div 10
             sat_scaled == satisfaction_t2b \div 10
         IN [err |-> NoErr, value |-> imp_scaled + Max(imp_scaled - sat_scaled, 0)]

\* The percentages are fixed-point thousandths and multiples of ten
\* thousandths, so that x / 10 is exact.
compute_aggregate_opportunity(importance_t2b, satisfaction_t2b) ==
    IF ~(0 <= importance_t2b /\ importance_t2b <= HundredPct
         /\ 0 <= satisfaction_t2b /\ satisfaction_t2b <= HundredPct)
    THEN [err |-> Raised("ValueError", "T2B percentages must be 0-100"), value |-> 0]
    ELSE LET imp_scaled == importance_t2b \div 10
             sat_scaled == satisfaction_t2b \div 10
         IN [err |-> NoErr, value |-> imp_scaled + Max(imp_scaled - sat_scaled, 0)]

(* Callers of the two formulas on bounded arguments *)

Ratings == MIN_OUTCOME_RATING..MAX_OUTCOME_RATING
\* percentages in thousandths: inside, on and outside the ends of [0, 100]
AggPcts == {0 - 50000, 0 - 100, 0, 100, 33300, 50000, 66700, 99900,
            100000, 100100, 250000}

OpInputs ==
    [fn : {"individual"}, importance : Ratings, satisfaction : Ratings]
    \cup [fn : {"aggregate"}, importance : AggPcts, satisfaction : AggPcts]

OpPending == [done |-> FALSE, err |-> NoErr, value |-> 0]

InitOpVars == opIn = [fn |-> "none", importance |-> 0, satisfaction |-> 0] /\ opOut = OpPending

ApplyIndividual ==
    /\ opIn.fn = "individual" /\ ~opOut.done
    /\ opOut' = [done |-> TRUE, err |-> NoErr,
                 value |-> compute_individual_opportunity(opIn.importance, opIn.satisfaction)]
    /\ opIn' = opIn

ApplyAggregate ==
    /\ opIn.fn = "aggregate" /\ ~opOut.done
    /\ LET r == compute_aggregate_opportunity(opIn.importance, opIn.satisfaction)
       IN opOut' = [done |-> TRUE, err |-> r.err, value |-> r.value]
    /\ opIn' = opIn

----------------------------------------------------------------------------
(* Helpers for the steps *)

\* the step raised err and left the Context as c
Fail(err, c) == [err |-> err, ctx |-> c]
Done(c) == [err |-> NoErr, ctx |-> c]

\* sorted(cols, key=lambda s: int(s.rsplit('_', 1)[-1])): a stable sort of
\* column names by outcome id
RECURSIVE InsertById(_, _)
InsertById(x, s) ==
    IF s = <<>> THEN <<x>>
    ELSE IF x.id < s[1].id THEN <<x>> \o s
    ELSE <<s[1]>> \o InsertById(x, Tail(s))
RECURSIVE SortedById(_)
SortedById(s) ==
    IF s = <<>> THEN <<>>
    ELSE InsertById(s[Len(s)], SortedById(SubSeq(s, 1, Len(s) - 1)))

\* the elements of a sequence, each once, in first-seen order
RECURSIVE Dedup(_)
Dedup(s) ==
    IF s = <<>> THEN <<>>
    ELSE LET d == Dedup(SubSeq(s, 1, Len(s) - 1))
         IN IF s[Len(s)] \in Range(d) THEN d ELSE Append(d, s[Len(s)])

\* the sequences that list the elements of S, each once
Perms(S) == {p \in [1..Cardinality(S) -> S] : Range(p) = S}

\* round(num / den) to the nearest integer, halves to the even one (numpy)
RoundHalfEven(num, den) ==
    LET q == num \div den
        r == num % den
    IN IF 2 * r < den THEN q
       ELSE IF 2 * r > den THEN q + 1
       ELSE IF q % 2 = 0 THEN q ELSE q + 1

\* a variant that truncates to one decimal instead of rounding
PctTrunc1(count, n) == 100 * ((count * 1000) \div n)

\* (count / n * 100).round(1), in thousandths
PctRound1(count, n) == 100 * RoundHalfEven(count * 1000, n)

\* round(x, 1) and round(x, 2) of a value in thousandths
Round1(x) == 100 * RoundHalfEven(x, 100)
Round2(x) == 10 * RoundHalfEven(x, 10)

----------------------------------------------------------------------------
(* juno/pipeline/steps/validate_preflight.py *)

\* strict -> the exception raised; else only a log line
validate_segments(n_respondents, n_segments, min_per_segment, strict) ==
    IF n_respondents < min_per_segment * n_segments /\ strict
    THEN Raised("InsufficientSampleError", "too few respondents")
    ELSE NoErr

ValidatePreflight_run(step, c) ==
    \* len(ctx.responses)
    LET e == validate_segments(Len(c.responses.rows), step.num_segments,
                               step.min_per_segment, step.strict)
    IN IF e # NoErr THEN {Fail(e, c)} ELSE {Done(c)}

----------------------------------------------------------------------------
(* juno/pipeline/steps/standardize_importance.py.  A z-score is kept as    *)
(* its sign: -1, 0 or 1.  StandardScaler gives 0 throughout a constant     *)
(* column (a zero variance is scaled by 1).                                *)

Sign(x) == IF x > 0 THEN 1 ELSE IF x < 0 THEN 0 - 1 ELSE 0

_standardize_importance(data) ==
    IF DfEmpty(data)
    THEN [err |-> Raised("ValueError", "Primary dataset is empty"), value |-> PyNone]
    ELSE LET importance_cols == ImportanceColumns(data) IN
         IF importance_cols = <<>>
         THEN [err |-> Raised("ValueError", "No importance columns found in data"),
               value |-> PyNone]
         ELSE LET n == Len(data.rows)
                  total(col) == SumSeq(Column(data, col))
                  z(i, col) == Sign(n * data.rows[i][col] - total(col))
              IN [err |-> NoErr,
                  value |-> DataFrameIdx(importance_cols,
                               [i \in DOMAIN data.rows |->
                                  [col \in Range(importance_cols) |-> z(i, col)]],
                               data.index)]

StandardizeImportance_run(step, c) ==
    LET primary == require_primary(c) IN
    IF primary.err # NoErr THEN {Fail(primary.err, c)}
    ELSE LET imp_std == _standardize_importance(primary.value) IN
         IF imp_std.err # NoErr THEN {Fail(imp_std.err, c)}
         ELSE {add_table(c, DERIVED_TABLE_IMPORTANCE_STD, imp_std.value)}

----------------------------------------------------------------------------
(* juno/pipeline/steps/compute_pca_components.py.  sklearn's PCA is not    *)
(* computed.  With X the standardized table of N rows and c non-constant   *)
(* columns, its covariance has trace c*N/(N-1) and rank at most            *)
(* min(N-1, c), equal columns counted once: when c = 0 every eigenvalue is  *)
(* 0 and every variance ratio is 0/0; otherwise at least one eigenvalue    *)
(* exceeds 1 and at most that many are non-zero.                           *)

AllZero(df) == \A i \in DOMAIN df.rows : \A col \in Range(df.columns) : df.rows[i][col] = 0
NonConstant(df) ==
    {col \in Range(df.columns) : \E i \in DOMAIN df.rows : df.rows[i][col] # 0}
MaxRank(df) ==
    Min(Len(df.rows) - 1,
        Cardinality({[i \in DOMAIN df.rows |-> df.rows[i][col]] : col \in NonConstant(df)}))

\* np.sum(eigenvalues > 1): the counts PCA can give on imp_data
_components_using_kaiser(imp_data) ==
    IF AllZero(imp_data) THEN {0} ELSE 1..MaxRank(imp_data)

\* np.argmax(cumsum >= 0.8) + 1: argmax of an all-False array is 0
_components_using_variance(imp_data) ==
    IF AllZero(imp_data) THEN {1} ELSE 1..MaxRank(imp_data)

\* the set of results the call can have
_determine_components(imp_data, method) ==
    IF DfEmpty(imp_data)
    THEN {[err |-> Raised("ValueError", "Cannot determine components from an empty DataFrame"),
           value |-> 0]}
    ELSE IF method = "kaiser"
    THEN {[err |-> NoErr, value |-> n] : n \in _components_using_kaiser(imp_data)}
    ELSE IF method = "variance_threshold"
    THEN {[err |-> NoErr, value |-> n] : n \in _components_using_variance(imp_data)}
    ELSE {[err |-> Raised("ValueError", "Unsupported method"), value |-> 0]}

ComputePCAComponents_run(step, c) ==
    LET imp_std == require_table(c, DERIVED_TABLE_IMPORTANCE_STD) IN
    IF imp_std.err # NoErr THEN {Fail(imp_std.err, c)}
    ELSE { IF r.err # NoErr THEN Fail(r.err, c)
           ELSE set_state(c, STATE_PARAM_N_COMPONENTS, PyInt(r.value))
           : r \in _determine_components(imp_std.value, step.method) }

----------------------------------------------------------------------------
(* juno/pipeline/steps/compute_factor_loadings.py.  pca.components_ is a   *)
(* set of orthonormal vectors; the model draws them from a palette of unit *)
(* vectors, in thousandths.                                                *)

Axis(cols, o) == [col \in Range(cols) |-> IF col = o THEN 1000 ELSE 0]
Mixed(cols, x, y) ==
    [col \in Range(cols) |-> IF col = cols[1] THEN x ELSE IF col = cols[2] THEN y ELSE 0]
UnitVecs(cols) ==
    {Axis(cols, o) : o \in Range(cols)}
    \cup (IF Len(cols) >= 2 THEN {Mixed(cols, 600, 800), Mixed(cols, 800, 0 - 600)} ELSE {})
Dot(cols, u, v) == SumSeq([i \in DOMAIN cols |-> u[cols[i]] * v[cols[i]]])
Components(cols, n) ==
    {t \in [1..n -> UnitVecs(cols)] :
        \A i, j \in 1..n : i < j => Dot(cols, t[i], t[j]) = 0}

_determine_loadings(imp_std, n_components) ==
    IF Len(imp_std.columns) = 0
    THEN {[err |-> Raised("ValueError", "Cannot determine loadings from an empty data frame"),
           value |-> PyNone]}
    ELSE IF n_components = 0
    THEN {[err |-> Raised("ValueError", "The number of components must be greater than one"),
           value |-> PyNone]}
    \* PCA(n_components=n).fit: n must be at most min(n_samples, n_features)
    ELSE IF n_components > Min(Len(imp_std.rows), Len(imp_std.columns))
    THEN {[err |-> Raised("ValueError", "n_components must be between 0 and min(n_samples, n_features)"),
           value |-> PyNone]}
    ELSE LET pcs == [i \in 1..n_components |-> primary_component_col(i)] IN
         {[err |-> NoErr,
           value |-> DataFrameIdx(pcs,
                        [f \in DOMAIN imp_std.columns |->
                            [comp \in Range(pcs) |-> t[comp.id][imp_std.columns[f]]]],
                        imp_std.columns)]
          : t \in Components(imp_std.columns, n_components)}

ComputeFactorLoadings_run(step, c) ==
    LET imp_std == require_table(c, DERIVED_TABLE_IMPORTANCE_STD) IN
    IF imp_std.err # NoErr THEN {Fail(imp_std.err, c)}
    ELSE LET n_components == require_state(c, STATE_PARAM_N_COMPONENTS) IN
         IF n_components.err # NoErr THEN {Fail(n_components.err, c)}
         ELSE { IF r.err # NoErr THEN Fail(r.err, c)
                ELSE add_table(c, DERIVED_TABLE_PCA_LOADINGS, r.value)
                : r \in _determine_loadings(imp_std.value, n_components.value.v) }

----------------------------------------------------------------------------
(* juno/pipeline/steps/select_key_outcomes.py.  Loadings and thresholds    *)
(* are in thousandths.  sort_values(ascending=False) fixes no order among  *)
(* equal strengths: every descending order is a possible one.              *)

\* loading_matrix.loc[feat_name, comp]
Loading(loading_matrix, feat, comp) ==
    LET i == CHOOSE i \in DOMAIN loading_matrix.index : loading_matrix.index[i] = feat
    IN loading_matrix.rows[i][comp]

\* a variant that walks the outcomes in any order
SortedByStrength_any_order(loading_matrix, comp) == Perms(Range(loading_matrix.index))

\* the orders loading_matrix[comp].abs().sort_values(ascending=False) can have
SortedByStrength(loading_matrix, comp) ==
    {p \in Perms(Range(loading_matrix.index)) :
        \A i, j \in DOMAIN p :
            i < j => Abs(Loading(loading_matrix, p[i], comp))
                        >= Abs(Loading(loading_matrix, p[j], comp))}

\* loading_matrix.loc[feat_name, others].abs().max() if others else 0.0
CrossLoading(loading_matrix, feat, comp) ==
    LET others == {c \in Range(loading_matrix.columns) : c # comp}
        vals == {Abs(Loading(loading_matrix, feat, c)) : c \in others}
    IN IF others = {} THEN 0 ELSE CHOOSE m \in vals : \A v \in vals : v <= m

\* the inner loop over sorted_by_strength from position i on
RECURSIVE ChooseForComp(_, _, _, _, _, _, _)
ChooseForComp(loading_matrix, comp, order, i, chosen, maxPer, th) ==
    IF i > Len(order) THEN chosen
    ELSE IF Len(chosen) >= maxPer THEN chosen
    ELSE IF Abs(Loading(loading_matrix, order[i], comp)) < th.minimal_primary_loading
    THEN ChooseForComp(loading_matrix, comp, order, i + 1, chosen, maxPer, th)
    ELSE IF CrossLoading(loading_matrix, order[i], comp) < th.maximum_cross_loading
    THEN ChooseForComp(loading_matrix, comp, order, i + 1, Append(chosen, order[i]), maxPer, th)
    ELSE ChooseForComp(loading_matrix, comp, order, i + 1, chosen, maxPer, th)

\* a variant without the fallback to the strongest
ChosenForComp_no_fallback(loading_matrix, comp, order, maxPer, th) ==
    ChooseForComp(loading_matrix, comp, order, 1, <<>>, maxPer, th)

\* chosen_for_this_comp, with the fallback to the strongest
ChosenForComp(loading_matrix, comp, order, maxPer, th) ==
    LET chosen == ChooseForComp(loading_matrix, comp, order, 1, <<>>, maxPer, th)
    IN IF chosen = <<>> THEN <<order[1]>> ELSE chosen

RECURSIVE ConcatAll(_)
ConcatAll(ss) == IF ss = <<>> THEN <<>> ELSE ss[1] \o ConcatAll(Tail(ss))

\* a variant that only rejects negative thresholds
_select_key_outcomes_any_order(loading_matrix, max_outcomes_per_component, maximum_cross_loading, minimal_primary_loading) ==
    IF minimal_primary_loading < 0 \/ maximum_cross_loading < 0
    THEN {[err |-> Raised("ValueError", "Both thresholds must be greater than 0"),
           value |-> <<>>]}
    ELSE LET comps == loading_matrix.columns
             th == [maximum_cross_loading |-> maximum_cross_loading,
                    minimal_primary_loading |-> minimal_primary_loading]
             orders == [k \in DOMAIN comps |-> SortedByStrength(loading_matrix, comps[k])]
         IN {[err |-> NoErr,
              value |-> Dedup(ConcatAll(
                  [k \in DOMAIN comps |->
                      ChosenForComp(loading_matrix, comps[k], o[k],
                                    max_outcomes_per_component, th)]))]
             : o \in {f \in [DOMAIN comps -> UNION {orders[k] : k \in DOMAIN comps}] :
                         \A k \in DOMAIN comps : f[k] \in orders[k]}}

\* the set of results the call can have
_select_key_outcomes(loading_matrix, max_outcomes_per_component, maximum_cross_loading, minimal_primary_loading) ==
    IF minimal_primary_loading < 0 \/ maximum_cross_loading < 0
    THEN {[err |-> Raised("ValueError", "Both thresholds must be greater than 0"),
           value |-> <<>>]}
    ELSE IF ~(0 <= maximum_cross_loading
              /\ maximum_cross_loading < minimal_primary_loading
              /\ minimal_primary_loading <= 1000)
    THEN {[err |-> Raised("ValueError", "Invalid thresholds"), value |-> <<>>]}
    ELSE LET comps == loading_matrix.columns
             th == [maximum_cross_loading |-> maximum_cross_loading,
                    minimal_primary_loading |-> minimal_primary_loading]
             orders == [k \in DOMAIN comps |-> SortedByStrength(loading_matrix, comps[k])]
         IN {[err |-> NoErr,
              value |-> Dedup(ConcatAll(
                  [k \in DOMAIN comps |->
                      ChosenForComp(loading_matrix, comps[k], o[k],
                                    max_outcomes_per_component, th)]))]
             : o \in {f \in [DOMAIN comps -> UNION {orders[k] : k \in DOMAIN comps}] :
                         \A k \in DOMAIN comps : f[k] \in orders[k]}}

SelectKeyOutcomes_run(step, c) ==
    LET loadings == require_table(c, DERIVED_TABLE_PCA_LOADINGS) IN
    IF loadings.err # NoErr THEN {Fail(loadings.err, c)}
    ELSE IF DfEmpty(loadings.value)
    THEN {Fail(Raised("ValueError", "DERIVED_TABLE_PCA_LOADINGS cannot be empty"), c)}
    ELSE { IF r.err # NoErr THEN Fail(r.err, c)
           ELSE set_state(c, DERIVED_LIST_KEY_OUTCOMES, PyList(r.value))
           : r \in _select_key_outcomes(loadings.value,
                                        step.max_outcomes_per_component,
                                        step.maximum_cross_loading,
                                        step.minimal_primary_loading) }

----------------------------------------------------------------------------
(* juno/pipeline/steps/compute_opportunity_profiles.py *)

\* a row with the columns cols only
Project(row, cols) == [col \in Range(cols) |-> row[col]]
\* a row with one more column
WithColumn(row, col, v) == [x \in (DOMAIN row) \cup {col} |-> IF x = col THEN v ELSE row[x]]

_filter_to_key_outcomes(data, key_outcomes) ==
    IF DfEmpty(data)
    THEN [err |-> Raised("ValueError", "Cannot select key outcomes from an empty DataFrame"),
          value |-> PyNone]
    ELSE LET importance_features == ImportanceColumns(data)
             satisfaction_features == SatisfactionColumns(data)
             key_satisfaction_variables ==
                 [i \in DOMAIN key_outcomes |-> corresponding_satisfaction(key_outcomes[i])]
             columns == <<RESPONDENT_ID>> \o key_satisfaction_variables \o key_outcomes
         IN IF ~HasColumn(data, RESPONDENT_ID)
            THEN [err |-> Raised("KeyError", "respondentId"), value |-> PyNone]
            ELSE IF ~(Range(key_outcomes) \subseteq Range(importance_features))
            THEN [err |-> Raised("KeyError", "key outcomes not in index"), value |-> PyNone]
            ELSE IF ~(Range(key_satisfaction_variables) \subseteq Range(satisfaction_features))
            THEN [err |-> Raised("KeyError", "satisfaction columns not in index"),
                  value |-> PyNone]
            ELSE [err |-> NoErr,
                  value |-> DataFrameIdx(columns,
                               [i \in DOMAIN data.rows |-> Project(data.rows[i], columns)],
                               data.index)]

\* the loop over importance_columns from position k on
RECURSIVE AddOpportunityColumns(_, _, _)
AddOpportunityColumns(data, importance_columns, k) ==
    IF k > Len(importance_columns) THEN data
    ELSE LET importance_column == importance_columns[k]
             satisfaction_column == corresponding_satisfaction(importance_column)
             opportunity_column == corresponding_opportunity(importance_column)
             next == DataFrameIdx(
                 IF HasColumn(data, opportunity_column) THEN data.columns
                 ELSE Append(data.columns, opportunity_column),
                 [i \in DOMAIN data.rows |->
                     WithColumn(data.rows[i], opportunity_column,
                         compute_individual_opportunity(data.rows[i][importance_column],
                                                        data.rows[i][satisfaction_column]))],
                 data.index)
         IN AddOpportunityColumns(next, importance_columns, k + 1)

_add_opportunity_scores(filtered_data) ==
    IF DfEmpty(filtered_data)
    THEN [err |-> Raised("ValueError", "Cannot add opportunity scores to an empty DataFrame"),
          value |-> PyNone]
    ELSE [err |-> NoErr,
          value |-> AddOpportunityColumns(filtered_data,
                        ImportanceColumns(filtered_data), 1)]

ComputeOpportunityProfiles_run(step, c) ==
    LET primary == require_primary(c) IN
    IF primary.err # NoErr THEN {Fail(primary.err, c)}
    ELSE LET key_outcomes == require_state(c, DERIVED_LIST_KEY_OUTCOMES) IN
         IF key_outcomes.err # NoErr THEN {Fail(key_outcomes.err, c)}
         ELSE LET filtered_outcomes == _filter_to_key_outcomes(c.responses, key_outcomes.value.v)
              IN IF filtered_outcomes.err # NoErr THEN {Fail(filtered_outcomes.err, c)}
                 ELSE LET df == _add_opportunity_scores(filtered_outcomes.value) IN
                      IF df.err # NoErr THEN {Fail(df.err, c)}
                      ELSE {add_table(c, DERIVED_TABLE_RESPONSES_FILTERED_OPP, df.value)}

----------------------------------------------------------------------------
(* juno/pipeline/steps/assign_segments.py.  KMeans is not computed.  The    *)
(* labels of fit_predict are each row's nearest centre: they lie in        *)
(* 0..n_clusters-1 and rows with equal features get equal labels.          *)
(* k-means++ seeds the centres on distinct rows and an emptied cluster is  *)
(* relocated, so min(n_clusters, number of distinct rows) labels are used  *)
(* (sklearn warns "Number of distinct clusters found smaller than          *)
(* n_clusters" in the second case).  Every such labelling is possible.     *)

\* a missing value (NaN) in an integer column
NaN == 0 - 1


Labellings(data, opportunity_columns, num_segments) ==
    LET feat(i) == Project(data.rows[i], opportunity_columns)
        feats == {feat(i) : i \in DOMAIN data.rows}
        used(f) == {f[x] : x \in feats}
    IN {[i \in DOMAIN data.rows |-> f[feat(i)]] :
            f \in {g \in [feats -> 0..(num_segments - 1)] :
                      Cardinality(used(g)) = Min(num_segments, Cardinality(feats))}}

\* a variant that numbers the segments from 1
_add_segments_from_one(data, num_segments, random_state) ==
    {[err |-> NoErr,
      value |-> DataFrameIdx(
          Append(data.columns, SEGMENT_ID),
          [i \in DOMAIN data.rows |->
              WithColumn(data.rows[i], SEGMENT_ID, segment_labels[i] + 1)],
          data.index)]
     : segment_labels \in Labellings(data, list_opportunity_columns(data), num_segments)}

_add_segments(data, num_segments, random_state) ==
    IF DfEmpty(data)
    THEN {[err |-> Raised("ValueError", "Cannot add segments to an empty DataFrame"),
           value |-> PyNone]}
    ELSE IF num_segments <= 0
    THEN {[err |-> Raised("ValueError", "Number of segments must be greater than 0"),
           value |-> PyNone]}
    ELSE LET opportunity_columns == list_opportunity_columns(data) IN
         \* KMeans.fit_predict: at least one feature, n_samples >= n_clusters
         IF opportunity_columns = <<>>
         THEN {[err |-> Raised("ValueError", "Found array with 0 feature(s)"), value |-> PyNone]}
         ELSE IF Len(data.rows) < num_segments
         THEN {[err |-> Raised("ValueError", "n_samples should be >= n_clusters"),
                value |-> PyNone]}
         ELSE {[err |-> NoErr,
                value |-> DataFrameIdx(
                    IF HasColumn(data, SEGMENT_ID) THEN data.columns
                    ELSE Append(data.columns, SEGMENT_ID),
                    [i \in DOMAIN data.rows |->
                        WithColumn(data.rows[i], SEGMENT_ID, segment_labels[i])],
                    data.index)]
               : segment_labels \in Labellings(data, opportunity_columns, num_segments)}

_join(primary, with_opp_and_seg) ==
    IF ~HasColumn(primary, RESPONDENT_ID)
    THEN [err |-> Raised("KeyError", "Primary table missing required column"), value |-> PyNone]
    ELSE IF ~HasColumn(with_opp_and_seg, RESPONDENT_ID)
    THEN [err |-> Raised("KeyError", "with_opp_and_seg missing required column"),
          value |-> PyNone]
    ELSE IF ~HasColumn(with_opp_and_seg, SEGMENT_ID)
    THEN [err |-> Raised("KeyError", "with_opp_and_seg missing required column segmentId"),
          value |-> PyNone]
    ELSE LET \* drop_duplicates(subset=[respondentId]) keeps the first row of an id
             first(id) == CHOOSE i \in DOMAIN with_opp_and_seg.rows :
                             /\ with_opp_and_seg.rows[i][RESPONDENT_ID] = id
                             /\ \A j \in 1..(i - 1) :
                                   with_opp_and_seg.rows[j][RESPONDENT_ID] # id
             known == {with_opp_and_seg.rows[i][RESPONDENT_ID] :
                          i \in DOMAIN with_opp_and_seg.rows}
             \* the left merge on respondentId
             label(id) == IF id \in known
                          THEN with_opp_and_seg.rows[first(id)][SEGMENT_ID] ELSE NaN
         IN [err |-> NoErr,
             value |-> DataFrame(Append(primary.columns, SEGMENT_ID),
                          [i \in DOMAIN primary.rows |->
                              WithColumn(primary.rows[i], SEGMENT_ID,
                                         label(primary.rows[i][RESPONDENT_ID]))])]

\* a variant that writes the segment labels into the primary table itself
AssignSegments_run_in_place(step, c) ==
    LET filtered_with_opportunity == require_table(c, DERIVED_TABLE_RESPONSES_FILTERED_OPP) IN
    IF filtered_with_opportunity.err # NoErr THEN {Fail(filtered_with_opportunity.err, c)}
    ELSE { IF with_opp_seg.err # NoErr THEN Fail(with_opp_seg.err, c)
           ELSE LET c1 == add_table(c, DERIVED_TABLE_RESPONSES_OPP, with_opp_seg.value).ctx
                    primary_with_seg == _join(c1.responses, with_opp_seg.value)
                IN IF primary_with_seg.err # NoErr THEN Fail(primary_with_seg.err, c1)
                   ELSE add_table([c1 EXCEPT !.responses = primary_with_seg.value],
                                  DERIVED_TABLE_RESPONSES_WIDE_SEG, primary_with_seg.value)
           : with_opp_seg \in _add_segments(filtered_with_opportunity.value,
                                            step.num_segments, step.random_state) }

AssignSegments_run(step, c) ==
    LET filtered_with_opportunity == require_table(c, DERIVED_TABLE_RESPONSES_FILTERED_OPP) IN
    IF filtered_with_opportunity.err # NoErr THEN {Fail(filtered_with_opportunity.err, c)}
    ELSE { IF with_opp_seg.err # NoErr THEN Fail(with_opp_seg.err, c)
           ELSE LET c1 == add_table(c, DERIVED_TABLE_RESPONSES_OPP, with_opp_seg.value).ctx
                    primary_with_seg == _join(c1.responses, with_opp_seg.value)
                IN IF primary_with_seg.err # NoErr THEN Fail(primary_with_seg.err, c1)
                   ELSE add_table(c1, DERIVED_TABLE_RESPONSES_WIDE_SEG, primary_with_seg.value)
           : with_opp_seg \in _add_segments(filtered_with_opportunity.value,
                                            step.num_segments, step.random_state) }

----------------------------------------------------------------------------
(* juno/pipeline/steps/characterize_segments.py *)

OUTCOME_ID == [prefix |-> "outcomeId", id |-> 0]
SAT_TB == [prefix |-> "sat_tb", id |-> 0]
IMP_TB == [prefix |-> "imp_tb", id |-> 0]
OPP_TB == [prefix |-> "opp_tb", id |-> 0]
SIZE_PCT == [prefix |-> "size_pct", id |-> 0]

\* the integers of S in ascending order
RECURSIVE SortedSeqOf(_)
SortedSeqOf(S) ==
    IF S = {} THEN <<>>
    ELSE LET m == CHOOSE x \in S : \A y \in S : x <= y
         IN <<m>> \o SortedSeqOf(S \ {m})

\* df[segmentId].value_counts(normalize=True).sort_index().mul(100).round(1)
\* as a table: NaN labels are not counted
SegmentSizes(labels) ==
    LET present == {i \in DOMAIN labels : labels[i] # NaN}
        ids == SortedSeqOf({labels[i] : i \in present})
        count(cid) == Cardinality({i \in present : labels[i] = cid})
    IN DataFrame(<<SEGMENT_ID, SIZE_PCT>>,
           [k \in DOMAIN ids |->
               [col \in {SEGMENT_ID, SIZE_PCT} |->
                   IF col = SEGMENT_ID THEN ids[k]
                   ELSE PctRound1(count(ids[k]), Cardinality(present))]])

\* ((df.loc[m, col] >= top_box_threshold).mean() * 100).round(1)
TopBoxPct(df, m, col, top_box_threshold) ==
    PctRound1(Cardinality({i \in m : df.rows[i][col] >= top_box_threshold}), Cardinality(m))

_compute_topbox_percentages(df_with_segments, top_box_threshold) ==
    IF DfEmpty(df_with_segments)
    THEN [err |-> Raised("ValueError", "Cannot compute segment characteristics on an empty DataFrame"),
          results |-> PyNone, cluster_sizes |-> PyNone]
    ELSE IF ~validate_threshold(top_box_threshold)
    THEN [err |-> Raised("ValueError", "T2B threshold must be between 1 and 5"),
          results |-> PyNone, cluster_sizes |-> PyNone]
    ELSE LET importance_cols == SortedById(ImportanceColumns(df_with_segments))
             satisfaction_cols == SortedById(SatisfactionColumns(df_with_segments))
             labels == Column(df_with_segments, SEGMENT_ID)
             cids == SortedSeqOf({labels[i] : i \in DOMAIN labels} \ {NaN})
             npairs == Min(Len(satisfaction_cols), Len(importance_cols))
             mask(cid) == {i \in DOMAIN labels : labels[i] = cid}
             record(cid, k) ==
                 [col \in {SEGMENT_ID, OUTCOME_ID, SAT_TB, IMP_TB} |->
                     IF col = SEGMENT_ID THEN cid
                     ELSE IF col = OUTCOME_ID THEN satisfaction_cols[k].id
                     ELSE IF col = SAT_TB
                     THEN TopBoxPct(df_with_segments, mask(cid), satisfaction_cols[k],
                                    top_box_threshold)
                     ELSE TopBoxPct(df_with_segments, mask(cid), importance_cols[k],
                                    top_box_threshold)]
             \* cids and the column lists are ascending, so the records are
             \* already in (segmentId, outcomeId) order for sort_values
             records == ConcatAll([s \in DOMAIN cids |->
                            [k \in 1..npairs |-> record(cids[s], k)]])
         IN IF Len(importance_cols) # Len(satisfaction_cols)
            THEN [err |-> Raised("ValueError", "Mismatched importance vs satisfaction columns."),
                  results |-> PyNone, cluster_sizes |-> PyNone]
            ELSE [err |-> NoErr,
                  results |-> DataFrame(<<SEGMENT_ID, OUTCOME_ID, SAT_TB, IMP_TB>>, records),
                  cluster_sizes |-> SegmentSizes(labels)]

\* the rows of t2b from position k on, each with its opp_tb; the first
\* exception of compute_aggregate_opportunity ends the apply
RECURSIVE OppRows(_, _)
OppRows(rows, k) ==
    IF k > Len(rows) THEN [err |-> NoErr, rows |-> <<>>]
    ELSE LET o == compute_aggregate_opportunity(rows[k][IMP_TB], rows[k][SAT_TB]) IN
         IF o.err # NoErr THEN [err |-> o.err, rows |-> <<>>]
         ELSE LET rest == OppRows(rows, k + 1) IN
              IF rest.err # NoErr THEN rest
              ELSE [err |-> NoErr,
                    rows |-> <<WithColumn(rows[k], OPP_TB, o.value)>> \o rest.rows]

_add_segment_opportunity_scores(t2b) ==
    LET r == OppRows(t2b.rows, 1) IN
    IF r.err # NoErr THEN [err |-> r.err, value |-> PyNone]
    ELSE [err |-> NoErr, value |-> DataFrame(Append(t2b.columns, OPP_TB), r.rows)]

CharacterizeSegments_run(step, c) ==
    LET primary_with_segments == require_table(c, DERIVED_TABLE_RESPONSES_WIDE_SEG) IN
    IF primary_with_segments.err # NoErr THEN {Fail(primary_with_segments.err, c)}
    ELSE LET t == _compute_topbox_percentages(primary_with_segments.value,
                                              step.top_box_threshold) IN
         IF t.err # NoErr THEN {Fail(t.err, c)}
         ELSE LET outcome_scores == _add_segment_opportunity_scores(t.results) IN
              IF outcome_scores.err # NoErr THEN {Fail(outcome_scores.err, c)}
              ELSE {add_table(
                       add_table(c, GEN_TABLE_SEGMENT_OUTCOME_T2B, outcome_scores.value).ctx,
                       GEN_TABLE_SEGMENT_SIZES, t.cluster_sizes)}

----------------------------------------------------------------------------
(* soda/pipeline/runner.py and juno/core/segment_builder.py *)

\* a variant that selects the key outcomes before the loadings exist
_build_pipeline_reordered(self) ==
    << [name |-> "validate_preflight", num_segments |-> self.num_segments,
        min_per_segment |-> 60, strict |-> FALSE],
       [name |-> "standardize_importance"],
       [name |-> "determine_components", method |-> self.pca_method],
       [name |-> "select_key_outcomes",
        max_outcomes_per_component |-> self.max_outcomes_per_component,
        maximum_cross_loading |-> self.max_cross_loading,
        minimal_primary_loading |-> self.min_primary_loading],
       [name |-> "determine_loadings"],
       [name |-> "filter_to_key_outcomes"],
       [name |-> "assign_segments", num_segments |-> self.num_segments,
        random_state |-> self.random_state],
       [name |-> "characterize_segments", top_box_threshold |-> self.top_box_threshold] >>

\* SegmentBuilder._build_pipeline: the steps, each with its fields
_build_pipeline(self) ==
    << [name |-> "validate_preflight", num_segments |-> self.num_segments,
        min_per_segment |-> 60, strict |-> FALSE],
       [name |-> "standardize_importance"],
       [name |-> "determine_components", method |-> self.pca_method],
       [name |-> "determine_loadings"],
       [name |-> "select_key_outcomes",
        max_outcomes_per_component |-> self.max_outcomes_per_component,
        maximum_cross_loading |-> self.max_cross_loading,
        minimal_primary_loading |-> self.min_primary_loading],
       [name |-> "filter_to_key_outcomes"],
       [name |-> "assign_segments", num_segments |-> self.num_segments,
        random_state |-> self.random_state],
       [name |-> "characterize_segments", top_box_threshold |-> self.top_box_threshold] >>

\* step.run(ctx): the results the step can have on the Context c
StepRun(step, c) ==
    CASE step.name = "validate_preflight" -> ValidatePreflight_run(step, c)
      [] step.name = "standardize_importance" -> StandardizeImportance_run(step, c)
      [] step.name = "determine_components" -> ComputePCAComponents_run(step, c)
      [] step.name = "determine_loadings" -> ComputeFactorLoadings_run(step, c)
      [] step.name = "select_key_outcomes" -> SelectKeyOutcomes_run(step, c)
      [] step.name = "filter_to_key_outcomes" -> ComputeOpportunityProfiles_run(step, c)
      [] step.name = "assign_segments" -> AssignSegments_run(step, c)
      [] step.name = "characterize_segments" -> CharacterizeSegments_run(step, c)

\* a variant without the comparison of the row count with num_segments
_validate_responses_any_rows(self, df) ==
    IF ~IsDataFrame(df) THEN Raised("ValueError", "responses_df must be DataFrame")
    ELSE IF DfEmpty(df) THEN Raised("ValueError", "responses_df cannot be empty")
    ELSE LET sat_cols == SatisfactionColumns(df)
             imp_cols == ImportanceColumns(df)
         IN IF sat_cols = <<>> THEN Raised("ValueError", "No satisfaction columns found")
            ELSE IF imp_cols = <<>> THEN Raised("ValueError", "No importance columns found")
            ELSE IF Len(sat_cols) # Len(imp_cols)
            THEN Raised("ValueError", "Mismatch: satisfaction vs importance columns")
            ELSE NoErr

_validate_responses(self, df) ==
    IF ~IsDataFrame(df) THEN Raised("ValueError", "responses_df must be DataFrame")
    ELSE IF DfEmpty(df) THEN Raised("ValueError", "responses_df cannot be empty")
    ELSE LET sat_cols == SatisfactionColumns(df)
             imp_cols == ImportanceColumns(df)
         IN IF sat_cols = <<>> THEN Raised("ValueError", "No satisfaction columns found")
            ELSE IF imp_cols = <<>> THEN Raised("ValueError", "No importance columns found")
            ELSE IF Len(sat_cols) # Len(imp_cols)
            THEN Raised("ValueError", "Mismatch: satisfaction vs importance columns")
            ELSE IF Len(df.rows) < self.num_segments
            THEN Raised("ValueError", "Need at least num_segments respondents")
            ELSE NoErr

\* raise RuntimeError(f"Segmentation failed: {e}") from e
FitError(e) == [type |-> "RuntimeError", msg |-> "Segmentation failed", cause |-> e]

_check_fitted(self_fitted) ==
    IF ~self_fitted THEN Raised("ValueError", "SegmentAnalyzer not fitted. Call fit() first.")
    ELSE NoErr

\* SegmentBuilder.model
model(self_fitted, c) ==
    IF _check_fitted(self_fitted) # NoErr
    THEN [err |-> _check_fitted(self_fitted), value |-> PyNone]
    ELSE LET df_segs == require_table(c, GEN_TABLE_SEGMENT_OUTCOME_T2B)
             df_sizes == require_table(c, GEN_TABLE_SEGMENT_SIZES)
         IN IF df_segs.err # NoErr THEN [err |-> df_segs.err, value |-> PyNone]
            ELSE IF df_sizes.err # NoErr THEN [err |-> df_sizes.err, value |-> PyNone]
            ELSE LET outcomes(seg_id) ==
                         LET InSeg(row) == row[SEGMENT_ID] = seg_id
                             rows == SelectSeq(df_segs.value.rows, InSeg)
                         IN [k \in DOMAIN rows |->
                                [outcome_id |-> rows[k][OUTCOME_ID],
                                 sat_tb |-> Round1(rows[k][SAT_TB]),
                                 imp_tb |-> Round1(rows[k][IMP_TB]),
                                 opportunity |-> Round2(rows[k][OPP_TB])]]
                 IN [err |-> NoErr,
                     value |-> [segments |->
                         [k \in DOMAIN df_sizes.value.rows |->
                             [segment_id |-> df_sizes.value.rows[k][SEGMENT_ID],
                              size_pct |-> df_sizes.value.rows[k][SIZE_PCT],
                              outcomes |-> outcomes(df_sizes.value.rows[k][SEGMENT_ID])]]]]

\* np.array([(y == c).sum() for c in range(k)]), indexed from 1
ClusterCounts(y, k) == [j \in 1..k |-> Cardinality({i \in DOMAIN y : y[i] = j - 1})]
\* (counts / n * 100.0).tolist(): each percentage exact, as num / den
ClusterSizesPct(y, k) == [j \in 1..k |-> [num |-> ClusterCounts(y, k)[j] * 100, den |-> Len(y)]]

\* SegmentBuilder.metrics.  A silhouette is "float" (some number) or "nan";
\* a size percentage count / n * 100 is kept exact, as num / den.
metrics(self, self_fitted, c) ==
    IF _check_fitted(self_fitted) # NoErr
    THEN [err |-> _check_fitted(self_fitted), value |-> PyNone]
    ELSE LET with_opp_seg == require_table(c, DERIVED_TABLE_RESPONSES_OPP) IN
         IF with_opp_seg.err # NoErr THEN [err |-> with_opp_seg.err, value |-> PyNone]
         ELSE LET feat_cols == list_opportunity_columns(with_opp_seg.value)
                  y == Column(with_opp_seg.value, SEGMENT_ID)
                  n == Len(y)
                  k == self.num_segments
                  any(cl) == \E i \in DOMAIN y : y[i] = cl
                  n_labels == Cardinality({y[i] : i \in DOMAIN y})
                  counts == ClusterCounts(y, k)
                  value(sil_overall, sil_by_cluster) ==
                      [method |-> self.segment_method,
                       k |-> k,
                       random_state |-> self.random_state,
                       silhouette_mean |-> sil_overall,
                       silhouette_by_cluster |-> sil_by_cluster,
                       cluster_sizes_pct |-> ClusterSizesPct(y, k),
                       min_cluster_pct |->
                           IF n > 0
                           THEN [num |-> 100 * (CHOOSE m \in Range(counts) :
                                                   \A x \in Range(counts) : m <= x),
                                 den |-> n]
                           ELSE [num |-> 0, den |-> 0]]
              IN IF feat_cols = <<>>
                 THEN [err |-> Raised("ValueError", "No Opportunity_* columns found"),
                       value |-> PyNone]
                 ELSE IF k > 1 /\ n > k
                 \* silhouette_score needs 2 <= n_labels <= n_samples - 1
                 THEN IF ~(1 < n_labels /\ n_labels < n)
                      THEN [err |-> Raised("ValueError", "Number of labels is invalid"),
                            value |-> PyNone]
                      ELSE [err |-> NoErr,
                            value |-> value("float",
                                [j \in 1..k |-> IF any(j - 1) THEN "float" ELSE "nan"])]
                 ELSE [err |-> NoErr, value |-> value("nan", [j \in 1..k |-> "nan"])]

\* a variant of assignments keyed by the position of the row
assignments_by_position(self_fitted, c) ==
    LET rows == TableAt(c, DERIVED_TABLE_RESPONSES_OPP).rows
    IN [err |-> NoErr,
        value |-> [assignments |-> [i \in DOMAIN rows |-> rows[i][SEGMENT_ID]]]]

\* SegmentBuilder.assignments: dict(zip(ids, labels)) keeps the last label of an id
assignments(self_fitted, c) ==
    IF _check_fitted(self_fitted) # NoErr
    THEN [err |-> _check_fitted(self_fitted), value |-> PyNone]
    ELSE LET with_opp_seg == require_table(c, DERIVED_TABLE_RESPONSES_OPP) IN
         IF with_opp_seg.err # NoErr THEN [err |-> with_opp_seg.err, value |-> PyNone]
         ELSE LET rows == with_opp_seg.value.rows
                  ids == {rows[i][RESPONDENT_ID] : i \in DOMAIN rows}
                  last(id) == CHOOSE i \in DOMAIN rows :
                                 /\ rows[i][RESPONDENT_ID] = id
                                 /\ \A j \in DOMAIN rows :
                                       j > i => rows[j][RESPONDENT_ID] # id
              IN [err |-> NoErr,
                  value |-> [assignments |-> [id \in ids |-> rows[last(id)][SEGMENT_ID]]]]

----------------------------------------------------------------------------
(* The builder, its caller and the inputs the caller passes *)

MaxRows == 3
NumOutcomes == 2
MaxSegments == 3
MaxFits == 2

\* SegmentBuilder.__init__: the defaults, in thousandths where fractional
DefaultSegments == 3
DefaultConfig ==
    [num_segments |-> DefaultSegments, segment_method |-> "kmeans", pca_method |-> "kaiser",
     random_state |-> 10, max_outcomes_per_component |-> 1,
     max_cross_loading |-> 300, min_primary_loading |-> 350, top_box_threshold |-> 4]

\* the builders under test: the default one with each segment count, and
\* the default one with one other parameter changed
Configs ==
    {[DefaultConfig EXCEPT !.num_segments = k] : k \in 0..MaxSegments}
    \cup {[DefaultConfig EXCEPT !.pca_method = m] : m \in {"variance_threshold", "pca"}}
    \cup {[DefaultConfig EXCEPT !.max_outcomes_per_component = 2]}
    \cup {[DefaultConfig EXCEPT !.max_cross_loading = 500, !.min_primary_loading = 400]}
    \cup {[DefaultConfig EXCEPT !.top_box_threshold = 6]}

\* tests/test_segment_builder.py make_responses: a respondent gives every
\* outcome the same two ratings, taken from sat_pattern and imp_pattern.
\* The first three profiles have three opportunity scores (5, 6, 3); the
\* last two differ in importance and have the same opportunity score (4).
Profiles ==
    << [sat |-> 3, imp |-> 4], [sat |-> 4, imp |-> 5], [sat |-> 5, imp |-> 3],
       [sat |-> 5, imp |-> 4], [sat |-> 2, imp |-> 3] >>
SweptProfiles == {1, 2, 3}

ResponseColumns(n_outcomes) ==
    <<RESPONDENT_ID>> \o
    [j \in 1..(2 * n_outcomes) |->
        IF j % 2 = 1 THEN satisfaction_col((j + 1) \div 2) ELSE importance_col(j \div 2)]

\* the table of the respondents 1..Len(ps), respondent i with profile ps[i]
make_responses(ps, n_outcomes) ==
    DataFrame(ResponseColumns(n_outcomes),
        [i \in DOMAIN ps |->
            [col \in Range(ResponseColumns(n_outcomes)) |->
                IF col = RESPONDENT_ID THEN i
                ELSE IF is_satisfaction(col) THEN Profiles[ps[i]].sat
                ELSE Profiles[ps[i]].imp]])

\* df without the columns dropped
DropColumns(df, dropped) ==
    LET Keep(col) == col \notin dropped
        columns == SelectSeq(df.columns, Keep)
    IN DataFrameIdx(columns, [i \in DOMAIN df.rows |-> Project(df.rows[i], columns)], df.index)

\* the respondents are listed by profile: the steps treat the rows alike
WellFormed ==
    {make_responses(ps, NumOutcomes) :
        ps \in {qs \in UNION {[1..n -> SweptProfiles] : n \in 0..MaxRows} :
                    \A i \in 1..(Len(qs) - 1) : qs[i] <= qs[i + 1]}}

FullTable ==
    make_responses([i \in 1..MaxRows |-> ((i - 1) % Cardinality(SweptProfiles)) + 1], NumOutcomes)

\* respondents who differ in their ratings and not in their opportunity scores
EqualOpportunity == {make_responses(ps, NumOutcomes) : ps \in {<<4, 4, 5>>, <<4, 5, 5>>}}

Malformed ==
    { PyList(<<>>),
      DataFrame(<<>>, <<>>),
      DropColumns(FullTable, Range(SatisfactionColumns(FullTable))),
      DropColumns(FullTable, Range(ImportanceColumns(FullTable))),
      DropColumns(FullTable, {satisfaction_col(1)}) }

\* the full table with the respondent ids in descending order
Reversed ==
    {DataFrame(FullTable.columns,
         [i \in DOMAIN FullTable.rows |->
             [FullTable.rows[i] EXCEPT ![RESPONDENT_ID] = Len(FullTable.rows) + 1 - i]])}

Inputs == WellFormed \cup EqualOpportunity \cup Reversed \cup Malformed

\* what the caller passed, as far as the input validation looks at it
ArgShape(df) ==
    IF ~IsDataFrame(df)
    THEN [is_table |-> FALSE, n_rows |-> 0, n_columns |-> 0, n_sat |-> 0, n_imp |-> 0]
    ELSE [is_table |-> TRUE, n_rows |-> Len(df.rows), n_columns |-> Len(df.columns),
          n_sat |-> Len(SatisfactionColumns(df)),
          n_imp |-> Len(ImportanceColumns(df))]
NoArg == [is_table |-> FALSE, n_rows |-> 0, n_columns |-> 0, n_sat |-> 0, n_imp |-> 0]

Pending == [type |-> "pending"]

InitBuilderVars ==
    /\ cfg \in Configs
    /\ fitted = FALSE
    /\ context = PyNone
    /\ pc = "idle"
    /\ arg = NoArg
    /\ stepIdx = 1
    /\ ran = <<>>
    /\ outcome = Pending
    /\ nFit = 0
    /\ nCtx = 0
    /\ everFit = FALSE

\* a variant of fit that does not reset _fitted before the run
FitCall_no_reset(responses) ==
    /\ pc = "idle"
    /\ nFit < MaxFits
    /\ nFit' = nFit + 1
    /\ arg' = ArgShape(responses)
    /\ LET e == _validate_responses(cfg, responses) IN
       IF e # NoErr
       THEN /\ outcome' = e
            /\ UNCHANGED <<fitted, context, pc, stepIdx, ran, nCtx>>
       ELSE /\ context' = set_primary(NewContext, responses).ctx
            /\ nCtx' = nCtx + 1
            /\ fitted' = fitted
            /\ pc' = "run"
            /\ stepIdx' = 1
            /\ ran' = <<>>
            /\ outcome' = Pending
    /\ UNCHANGED <<cfg, everFit>>

\* a variant of fit that sets _fitted before the run instead of after it
FitCall_fitted_early(responses) ==
    /\ pc = "idle"
    /\ nFit < MaxFits
    /\ nFit' = nFit + 1
    /\ arg' = ArgShape(responses)
    /\ LET e == _validate_responses(cfg, responses) IN
       IF e # NoErr
       THEN /\ outcome' = e
            /\ UNCHANGED <<fitted, context, pc, stepIdx, ran, nCtx>>
       ELSE /\ context' = set_primary(NewContext, responses).ctx
            /\ nCtx' = nCtx + 1
            /\ fitted' = TRUE
            /\ pc' = "run"
            /\ stepIdx' = 1
            /\ ran' = <<>>
            /\ outcome' = Pending
    /\ UNCHANGED <<cfg, everFit>>

\* a variant of fit that keeps the Context of the previous fit
FitCall_same_context(responses) ==
    /\ pc = "idle"
    /\ nFit < MaxFits
    /\ nFit' = nFit + 1
    /\ arg' = ArgShape(responses)
    /\ LET e == _validate_responses(cfg, responses) IN
       IF e # NoErr
       THEN /\ outcome' = e
            /\ UNCHANGED <<fitted, context, pc, stepIdx, ran, nCtx>>
       ELSE /\ context' = set_primary(IF context = PyNone THEN NewContext ELSE context,
                                      responses).ctx
            /\ nCtx' = nCtx + 1
            /\ fitted' = FALSE
            /\ pc' = "run"
            /\ stepIdx' = 1
            /\ ran' = <<>>
            /\ outcome' = Pending
    /\ UNCHANGED <<cfg, everFit>>

\* SegmentBuilder.fit up to the try: the validation, the new Context
FitCall(responses) ==
    /\ pc = "idle"
    /\ nFit < MaxFits
    /\ nFit' = nFit + 1
    /\ arg' = ArgShape(responses)
    /\ LET e == _validate_responses(cfg, responses) IN
       IF e # NoErr
       THEN /\ outcome' = e
            /\ UNCHANGED <<fitted, context, pc, stepIdx, ran, nCtx>>
       ELSE /\ context' = set_primary(NewContext, responses).ctx
            /\ nCtx' = nCtx + 1
            /\ fitted' = FALSE
            /\ pc' = "run"
            /\ stepIdx' = 1
            /\ ran' = <<>>
            /\ outcome' = Pending
    /\ UNCHANGED <<cfg, everFit>>

\* run_pipeline: one turn of the loop over the steps; an exception of the
\* step leaves the loop and fit wraps it
RunStep ==
    /\ pc = "run"
    /\ stepIdx <= Len(_build_pipeline(cfg))
    /\ LET step == _build_pipeline(cfg)[stepIdx] IN
       \E r \in StepRun(step, context) :
           /\ context' = r.ctx
           /\ ran' = Append(ran, step.name)
           /\ IF r.err = NoErr
              THEN /\ stepIdx' = stepIdx + 1
                   /\ UNCHANGED <<pc, outcome>>
              ELSE /\ pc' = "idle"
                   /\ outcome' = FitError(r.err)
                   /\ UNCHANGED stepIdx
    /\ UNCHANGED <<cfg, fitted, arg, nFit, nCtx, everFit>>

\* run_pipeline returned: self._fitted = True
FitReturn ==
    /\ pc = "run"
    /\ stepIdx > Len(_build_pipeline(cfg))
    /\ fitted' = TRUE
    /\ everFit' = TRUE
    /\ pc' = "idle"
    /\ outcome' = NoErr
    /\ UNCHANGED <<cfg, context, arg, stepIdx, ran, nFit, nCtx>>

----------------------------------------------------------------------------
(* Repeated fits on one input table.  A library call (StandardScaler, PCA, *)
(* sorting, KMeans with its random_state) is a function of its arguments:  *)
(* the result a step chose for its fields and its Context is remembered,   *)
(* and the step gives that result whenever it runs on them again.          *)

\* what a caller reads from a builder whose fit has returned or raised
Views(self, self_fitted, c, raised) ==
    [raised |-> raised,
     assignments |-> assignments(self_fitted, c),
     metrics |-> metrics(self, self_fitted, c),
     model |-> model(self_fitted, c)]

\* SegmentBuilder(**config): a new builder, once the caller has read the
\* views of the one before
RepeatConstruct(config) ==
    /\ opIn.fn = "repeat"
    /\ pc = "idle"
    /\ opOut.observed
    /\ cfg' = config
    /\ fitted' = FALSE
    /\ context' = PyNone
    /\ outcome' = Pending
    /\ nFit' = 0
    /\ arg' = NoArg
    /\ stepIdx' = 1
    /\ ran' = <<>>
    /\ opOut' = [opOut EXCEPT !.observed = FALSE]
    /\ UNCHANGED <<pc, nCtx, everFit, opIn>>

\* builder.fit(responses), on the table of every fit
RepeatFit ==
    /\ opIn.fn = "repeat"
    /\ outcome = Pending \/ opOut.observed
    /\ nCtx <= MaxFits
    /\ FitCall(opIn.responses)
    /\ opOut' = [opOut EXCEPT !.observed = FALSE]
    /\ opIn' = opIn

\* one step of the pipeline, with the result the step had on these fields
\* and this Context before, when it had one
RepeatStep ==
    /\ opIn.fn = "repeat"
    /\ RunStep
    /\ LET step == _build_pipeline(cfg)[stepIdx]
           before == {m \in opIn.memo : m.step = step /\ m.ctx = context}
       IN IF before # {}
          THEN /\ \E m \in before : context' = m.after /\ outcome' = m.outcome
               /\ opIn' = opIn
          ELSE opIn' = [opIn EXCEPT !.memo = opIn.memo \cup
                           {[step |-> step, ctx |-> context, after |-> context',
                             outcome |-> outcome']}]
    /\ opOut' = opOut

\* the caller reads the views of the finished fit and keeps them
RepeatObserve ==
    /\ opIn.fn = "repeat"
    /\ pc = "idle"
    /\ outcome # Pending
    /\ ~opOut.observed
    /\ opOut' = [opOut EXCEPT !.observed = TRUE,
                    !.seen = Append(opOut.seen,
                                [cfg |-> cfg, views |-> Views(cfg, fitted, context, outcome)])]
    /\ UNCHANGED <<opIn, builderVars>>

----------------------------------------------------------------------------
(* soda/core/config.py and soda/core/orchestrator.py.  The parameters of a  *)
(* sweep are a dict: the sequence of its items, each a name and its list   *)
(* of values.  A combination (kwargs) is a function from names to values.  *)

\* the fields of SegmentBuilderConfig that are whole numbers; the values of
\* the others are in thousandths
IntegerParameters ==
    {"num_segments", "random_state", "max_outcomes_per_component", "top_box_threshold"}
AsThousandths(name, value) == IF name \in IntegerParameters THEN value * 1000 ELSE value

\* a variant of Constraint.check whose comparisons admit equal values
Constraint_check_or_equal(constraint, kwargs) ==
    IF constraint.left \notin DOMAIN kwargs \/ constraint.right \notin DOMAIN kwargs
    THEN TRUE
    ELSE LET left_val == AsThousandths(constraint.left, kwargs[constraint.left])
             right_val == AsThousandths(constraint.right, kwargs[constraint.right])
         IN IF constraint.type = "less_than" THEN left_val <= right_val
            ELSE IF constraint.type = "greater_than" THEN left_val >= right_val
            ELSE IF constraint.type = "not_equal" THEN left_val # right_val
            ELSE TRUE

\* Constraint.check
Constraint_check(constraint, kwargs) ==
    IF constraint.left \notin DOMAIN kwargs \/ constraint.right \notin DOMAIN kwargs
    THEN TRUE
    ELSE LET left_val == AsThousandths(constraint.left, kwargs[constraint.left])
             right_val == AsThousandths(constraint.right, kwargs[constraint.right])
         IN IF constraint.type = "less_than" THEN left_val < right_val
            ELSE IF constraint.type = "greater_than" THEN left_val > right_val
            ELSE IF constraint.type = "not_equal" THEN left_val # right_val
            ELSE TRUE

OrchestrationConfig(parameters, constraints) ==
    [parameters |-> parameters, constraints |-> constraints]

\* math.prod(len(values) for values in param_values)
RECURSIVE prod_len(_)
prod_len(param_values) ==
    IF param_values = <<>> THEN 1
    ELSE Len(Head(param_values)) * prod_len(Tail(param_values))

\* Orchestrator.count_configs
count_configs(config) ==
    prod_len([i \in DOMAIN config.parameters |-> config.parameters[i].values])

\* a variant of _is_valid_config that asks for one satisfied constraint
_is_valid_config_any(config, kwargs) ==
    \E i \in DOMAIN config.constraints : Constraint_check(config.constraints[i], kwargs)

\* Orchestrator._is_valid_config
_is_valid_config(config, kwargs) ==
    \A i \in DOMAIN config.constraints : Constraint_check(config.constraints[i], kwargs)

\* itertools.product(*param_values): the tuples in order, the last list
\* varying fastest
RECURSIVE product(_)
product(param_values) ==
    IF param_values = <<>> THEN << <<>> >>
    ELSE LET rest == product(Tail(param_values))
         IN ConcatAll([i \in DOMAIN Head(param_values) |->
                [j \in DOMAIN rest |-> <<Head(param_values)[i]>> \o rest[j]]])

\* dict(zip(param_names, combo))
dict_zip(param_names, combo) ==
    [name \in Range(param_names) |->
        combo[CHOOSE i \in DOMAIN param_names : param_names[i] = name]]

\* Orchestrator._get_valid_configs
_get_valid_configs(config) ==
    LET param_names == [i \in DOMAIN config.parameters |-> config.parameters[i].name]
        param_values == [i \in DOMAIN config.parameters |-> config.parameters[i].values]
        all_combos == product(param_values)
        kwargs == [i \in DOMAIN all_combos |-> dict_zip(param_names, all_combos[i])]
        Valid(kw) == _is_valid_config(config, kw)
    IN SelectSeq(kwargs, Valid)

\* Orchestrator.get_valid_config_count
get_valid_config_count(config) == Len(_get_valid_configs(config))

\* Orchestrator._create_segment_builder_config: the defaults, overridden
_create_segment_builder_config(orchestration_params) ==
    [field \in DOMAIN DefaultConfig |->
        IF field \in DOMAIN orchestration_params THEN orchestration_params[field]
        ELSE DefaultConfig[field]]

\* a call of a method of an Orchestrator that has not started
OrchPending ==
    [done |-> FALSE, err |-> NoErr, value |-> PyNone, phase |-> "next", i |-> 1,
     fits |-> 0, results |-> <<>>, received |-> <<>>]

\* count_configs() or get_valid_config_count(), called on their own
OrchCount ==
    /\ opIn.fn = "orchestrator"
    /\ opIn.method \in {"count_configs", "get_valid_config_count"}
    /\ ~opOut.done
    /\ opOut' = [opOut EXCEPT !.done = TRUE,
                    !.value = IF opIn.method = "count_configs"
                              THEN PyInt(count_configs(opIn.config))
                              ELSE PyInt(get_valid_config_count(opIn.config))]
    /\ UNCHANGED <<opIn, builderVars>>

\* run: the head of the loop.  With a combination left, its configuration
\* and SegmentBuilder(segment_config); with none left the generator ends,
\* and run_all returns the list it collected.
OrchConstruct ==
    /\ opIn.fn = "orchestrator"
    /\ opIn.method \in {"run", "run_all"}
    /\ ~opOut.done
    /\ opOut.phase = "next"
    /\ LET valid_configs == _get_valid_configs(opIn.config) IN
       IF opOut.i <= Len(valid_configs)
       THEN /\ cfg' = _create_segment_builder_config(valid_configs[opOut.i])
            /\ fitted' = FALSE
            /\ context' = PyNone
            /\ outcome' = Pending
            /\ nFit' = 0
            /\ opOut' = [opOut EXCEPT !.phase = "fit"]
            /\ UNCHANGED <<pc, arg, stepIdx, ran, nCtx, everFit>>
       ELSE /\ opOut' = [opOut EXCEPT !.done = TRUE, !.phase = "returned",
                            !.received = IF opIn.method = "run_all" THEN opOut.results
                                         ELSE opOut.received]
            /\ UNCHANGED builderVars
    /\ opIn' = opIn

\* run: segmenter.fit(responses_df), up to the pipeline
OrchFit ==
    /\ opIn.fn = "orchestrator"
    /\ opOut.phase = "fit"
    /\ FitCall(opIn.responses)
    /\ opOut' = [opOut EXCEPT !.phase = "fitting", !.fits = opOut.fits + 1]
    /\ opIn' = opIn

\* a variant of the loop that skips a combination whose fit failed
OrchYield_skip_failed ==
    /\ opIn.fn = "orchestrator"
    /\ opOut.phase = "fitting"
    /\ pc = "idle"
    /\ LET m == metrics(cfg, fitted, context)
           result == [config |-> cfg,
                      params |-> _get_valid_configs(opIn.config)[opOut.i],
                      metrics |-> m.value]
       IN IF outcome # NoErr \/ m.err # NoErr
          THEN opOut' = [opOut EXCEPT !.phase = "next", !.i = opOut.i + 1]
          ELSE IF opIn.method = "run"
          THEN opOut' = [opOut EXCEPT !.phase = "next", !.i = opOut.i + 1,
                            !.received = Append(opOut.received, result)]
          ELSE opOut' = [opOut EXCEPT !.phase = "next", !.i = opOut.i + 1,
                            !.results = Append(opOut.results, result)]
    /\ UNCHANGED <<opIn, builderVars>>

\* run: fit has returned or raised.  An exception of fit, or of the metrics
\* property, leaves the generator and, in run_all, list(...): the list
\* being collected is lost.  Otherwise the result is yielded: to the caller
\* that iterates run, to the list of run_all.
OrchYield ==
    /\ opIn.fn = "orchestrator"
    /\ opOut.phase = "fitting"
    /\ pc = "idle"
    /\ LET m == metrics(cfg, fitted, context)
           result == [config |-> cfg,
                      params |-> _get_valid_configs(opIn.config)[opOut.i],
                      metrics |-> m.value]
       IN IF outcome # NoErr
          THEN opOut' = [opOut EXCEPT !.done = TRUE, !.phase = "raised", !.err = outcome,
                            !.results = <<>>]
          ELSE IF m.err # NoErr
          THEN opOut' = [opOut EXCEPT !.done = TRUE, !.phase = "raised", !.err = m.err,
                            !.results = <<>>]
          ELSE IF opIn.method = "run"
          THEN opOut' = [opOut EXCEPT !.phase = "next", !.i = opOut.i + 1,
                            !.received = Append(opOut.received, result)]
          ELSE opOut' = [opOut EXCEPT !.phase = "next", !.i = opOut.i + 1,
                            !.results = Append(opOut.results, result)]
    /\ UNCHANGED <<opIn, builderVars>>

----------------------------------------------------------------------------
(* soda/core/selection/segmentation_selector.py.  A result is a record of  *)
(* its params and its metrics; silhouette_mean is a float in thousandths,  *)
(* a cluster size is in thousandths of a percent, a weight in thousandths. *)
(* A score is kept exact, in units of 10^-8.                                *)

\* a float: a number, or NaN
Float(x) == [nan |-> FALSE, v |-> x]
FloatNaN == [nan |-> TRUE, v |-> 0]

\* SelectionRulesConfig: the defaults
DefaultSelectionRules ==
    [min_segment_size_percent |-> 10000, min_silhouette |-> 250,
     silhouette_weight |-> 600, balance_weight |-> 400]

MaxOf(sizes) == CHOOSE x \in Range(sizes) : \A y \in Range(sizes) : y <= x
MinOf(sizes) == CHOOSE x \in Range(sizes) : \A y \in Range(sizes) : x <= y

\* SegmentationSelector._score_config, of metrics whose silhouette is a number
_score_config(config, m) ==
    LET silhouette_score == Min(2 * m.silhouette_mean.v, 1000)
        sizes == m.cluster_sizes_pct
        balance_score == 100000 - (MaxOf(sizes) - MinOf(sizes))
    IN silhouette_score * 100 * config.silhouette_weight + balance_score * config.balance_weight

\* a variant of the filter that keeps a result that meets either floor
PassesFloors_either(config, r) ==
    \/ MinOf(r.metrics.cluster_sizes_pct) >= config.min_segment_size_percent
    \/ (~r.metrics.silhouette_mean.nan /\ r.metrics.silhouette_mean.v >= config.min_silhouette)

\* select_best: the condition of the filter; a comparison with NaN is False
PassesFloors(config, r) ==
    /\ MinOf(r.metrics.cluster_sizes_pct) >= config.min_segment_size_percent
    /\ ~r.metrics.silhouette_mean.nan
    /\ r.metrics.silhouette_mean.v >= config.min_silhouette

\* a variant of max that keeps the last of the items with the greatest key
RECURSIVE max_by_score_last(_, _, _)
max_by_score_last(config, best, rest) ==
    IF rest = <<>> THEN best
    ELSE IF _score_config(config, Head(rest).metrics) >= _score_config(config, best.metrics)
    THEN max_by_score_last(config, Head(rest), Tail(rest))
    ELSE max_by_score_last(config, best, Tail(rest))

\* max(viable, key=...): an item replaces the best so far when its key is greater
RECURSIVE max_by_score(_, _, _)
max_by_score(config, best, rest) ==
    IF rest = <<>> THEN best
    ELSE IF _score_config(config, Head(rest).metrics) > _score_config(config, best.metrics)
    THEN max_by_score(config, Head(rest), Tail(rest))
    ELSE max_by_score(config, best, Tail(rest))

\* SegmentationSelector.select_best
select_best(config, all_results) ==
    LET Keep(r) == PassesFloors(config, r)
        viable == SelectSeq(all_results, Keep)
    IN IF viable = <<>>
       THEN [err |-> Raised("ValueError", "No configurations meet constraints"), value |-> PyNone]
       ELSE [err |-> NoErr, value |-> max_by_score(config, Head(viable), Tail(viable))]

\* a call of select_best
ApplySelectBest ==
    /\ opIn.fn = "select_best"
    /\ ~opOut.done
    /\ LET r == select_best(opIn.config, opIn.all_results)
       IN opOut' = [done |-> TRUE, err |-> r.err, value |-> r.value]
    /\ opIn' = opIn

----------------------------------------------------------------------------
(* soda/core/zone_classifier.py.  Percentages, scores and thresholds are   *)
(* in thousandths.                                                          *)

\* soda/core/models.py ZoneType
UNDERSERVED == "UNDER"
OVERSERVED == "OVER"
TABLE_STAKES == "TABLE"
APPROPRIATELY_SERVED == "APPROP"

\* ZoneClassificationRules: the defaults
DefaultZoneRules ==
    [opportunity_threshold |-> 10000, importance_threshold |-> 60000,
     satisfaction_threshold |-> 50000]

\* a variant that tries the overserved rule second, without its importance test
classify_outcome_overserved_second(config, imp_tb, sat_tb, opportunity) ==
    LET high_opportunity == opportunity >= config.opportunity_threshold
        high_importance == imp_tb >= config.importance_threshold
        high_satisfaction == sat_tb >= config.satisfaction_threshold
    IN IF high_opportunity /\ ~high_satisfaction THEN UNDERSERVED
       ELSE IF ~high_opportunity /\ high_satisfaction THEN OVERSERVED
       ELSE IF high_importance /\ high_satisfaction THEN TABLE_STAKES
       ELSE APPROPRIATELY_SERVED

\* ZoneClassifier.classify_outcome
classify_outcome(config, imp_tb, sat_tb, opportunity) ==
    LET high_opportunity == opportunity >= config.opportunity_threshold
        high_importance == imp_tb >= config.importance_threshold
        high_satisfaction == sat_tb >= config.satisfaction_threshold
    IN IF high_opportunity /\ ~high_satisfaction THEN UNDERSERVED
       ELSE IF high_importance /\ high_satisfaction THEN TABLE_STAKES
       ELSE IF ~high_opportunity /\ high_satisfaction /\ ~high_importance THEN OVERSERVED
       ELSE APPROPRIATELY_SERVED

\* a call of classify_outcome
ApplyClassifyOutcome ==
    /\ opIn.fn = "classify_outcome"
    /\ ~opOut.done
    /\ opOut' = [done |-> TRUE, err |-> NoErr,
                 value |-> classify_outcome(opIn.config, opIn.imp_tb, opIn.sat_tb,
                                            opIn.opportunity)]
    /\ opIn' = opIn

----------------------------------------------------------------------------
(* The size percentages of a labelled table, on their own: the segmentId   *)
(* column that AssignSegments wrote for k segments, grown a row at a time, *)
(* then the sizes that CharacterizeSegments and metrics compute from it    *)

MaxSzRows == 6
MaxSzSegments == 6

SzPending == [done |-> FALSE, cluster_sizes |-> PyNone, cluster_sizes_pct |-> <<>>]

InitSzVars == szIn = [k |-> 0, labels |-> <<>>] /\ szOut = SzPending

SzAppend(label) ==
    /\ ~szOut.done
    /\ Len(szIn.labels) < MaxSzRows
    /\ szIn' = [szIn EXCEPT !.labels = Append(@, label)]
    /\ szOut' = szOut

\* fit accepts a table of at least k rows
SzCompute ==
    /\ ~szOut.done
    /\ Len(szIn.labels) >= szIn.k
    /\ szOut' = [done |-> TRUE,
                 cluster_sizes |-> SegmentSizes(szIn.labels),
                 cluster_sizes_pct |-> ClusterSizesPct(szIn.labels, szIn.k)]
    /\ szIn' = szIn

----------------------------------------------------------------------------
(* juno/core/loaders/responses_loader.py.  A line of the JSONL input is a  *)
(* record of the four integers, a blank line, or a line that json.loads    *)
(* or ResponseRecord rejects.                                              *)

BlankLine == [kind |-> "blank"]
InvalidLine == [kind |-> "invalid"]
ResponseRecord(respondentId, outcomeId, importance, satisfaction) ==
    [kind |-> "record", respondentId |-> respondentId, outcomeId |-> outcomeId,
     importance |-> importance, satisfaction |-> satisfaction]

\* df.duplicated(subset=[respondentId, outcomeId], keep=False)
duplicated(df, i) ==
    \E j \in DOMAIN df : /\ j # i
                         /\ df[j].respondentId = df[i].respondentId
                         /\ df[j].outcomeId = df[i].outcomeId

\* the long table pivoted on a table where the later rating of a pair
\* replaces the earlier one
_pivot_keep_last(df) ==
    LET last(i) == \A j \in DOMAIN df :
                        (df[j].respondentId = df[i].respondentId
                         /\ df[j].outcomeId = df[i].outcomeId) => j <= i
        kept == {i \in DOMAIN df : last(i)}
        respondents == SortedSeqOf({df[i].respondentId : i \in kept})
        outcomes == SortedSeqOf({df[i].outcomeId : i \in kept})
        cell(r, o, sat) ==
            IF \E i \in kept : df[i].respondentId = r /\ df[i].outcomeId = o
            THEN LET i == CHOOSE i \in kept : df[i].respondentId = r /\ df[i].outcomeId = o
                 IN IF sat THEN df[i].satisfaction ELSE df[i].importance
            ELSE NaN
        sat_cols == [n \in DOMAIN outcomes |-> satisfaction_col(outcomes[n])]
        imp_cols == [n \in DOMAIN outcomes |-> importance_col(outcomes[n])]
    IN [err |-> NoErr,
        value |-> DataFrame(<<RESPONDENT_ID>> \o sat_cols \o imp_cols,
                            [n \in DOMAIN respondents |->
                                [col \in {RESPONDENT_ID} \cup Range(sat_cols) \cup Range(imp_cols) |->
                                    IF col = RESPONDENT_ID THEN respondents[n]
                                    ELSE cell(respondents[n], col.id, is_satisfaction(col))]])]

\* ResponsesLoader._pivot: df is the long table, a sequence of records
_pivot(df) ==
    LET duplicates == {i \in DOMAIN df : duplicated(df, i)}
    IN IF duplicates # {}
       THEN [err |-> [type |-> "ValueError",
                      msg |-> "Duplicate (respondentId, outcomeId) pairs found in responses",
                      dup_rows |-> [n \in DOMAIN SortedSeqOf(duplicates) |->
                                      <<df[SortedSeqOf(duplicates)[n]].respondentId,
                                        df[SortedSeqOf(duplicates)[n]].outcomeId>>]],
             value |-> PyNone]
       ELSE LET respondents == SortedSeqOf({df[i].respondentId : i \in DOMAIN df})
                outcomes == SortedSeqOf({df[i].outcomeId : i \in DOMAIN df})
                \* df.pivot(index=respondentId, columns=outcomeId, values=...):
                \* a pair without a rating gives NaN
                cell(r, o, sat) ==
                    IF \E i \in DOMAIN df : df[i].respondentId = r /\ df[i].outcomeId = o
                    THEN LET i == CHOOSE i \in DOMAIN df :
                                      df[i].respondentId = r /\ df[i].outcomeId = o
                         IN IF sat THEN df[i].satisfaction ELSE df[i].importance
                    ELSE NaN
                sat_cols == [n \in DOMAIN outcomes |-> satisfaction_col(outcomes[n])]
                imp_cols == [n \in DOMAIN outcomes |-> importance_col(outcomes[n])]
            IN [err |-> NoErr,
                \* pd.concat([sat, imp], axis=1).reset_index()
                value |-> DataFrame(<<RESPONDENT_ID>> \o sat_cols \o imp_cols,
                            [n \in DOMAIN respondents |->
                                [col \in {RESPONDENT_ID} \cup Range(sat_cols) \cup Range(imp_cols) |->
                                    IF col = RESPONDENT_ID THEN respondents[n]
                                    ELSE cell(respondents[n], col.id, is_satisfaction(col))]])]

\* ResponsesLoader._load_from_file: the lines are read in order
_load_from_file(file_handle) ==
    LET bad == {i \in DOMAIN file_handle : file_handle[i] = InvalidLine}
        IsRecord(line) == line.kind = "record"
        rows == SelectSeq(file_handle, IsRecord)
    IN IF bad # {}
       THEN [err |-> [type |-> "ResponseLoadError", msg |-> "Error on line",
                      line |-> CHOOSE i \in bad : \A j \in bad : i <= j],
             value |-> PyNone]
       ELSE IF rows = <<>>
       THEN [err |-> Raised("ResponseLoadError", "No valid records found"),
             value |-> PyNone]
       ELSE _pivot(rows)

ApplyLoadFromFile ==
    /\ opIn.fn = "_load_from_file"
    /\ ~opOut.done
    /\ LET r == _load_from_file(opIn.file_handle)
       IN opOut' = [done |-> TRUE, err |-> r.err, value |-> r.value]
    /\ opIn' = opIn

----------------------------------------------------------------------------
(* juno/core/orchestrator.py: the scoring and the sorted views.  A result  *)
(* of run is a record of its params, its metrics and its score; a score is *)
(* a float in units of 10^-8.                                              *)

\* weights.get(key, default)
dict_get(weights, key, default) == IF key \in DOMAIN weights THEN weights[key] ELSE default

\* score_config.  min(nan, 1.0) is nan, and so is every sum and product of
\* nan.
score_config(m, weights) ==
    IF m.silhouette_mean.nan THEN FloatNaN
    ELSE LET silhouette_score == Min(2 * m.silhouette_mean.v, 1000)
             sizes == m.cluster_sizes_pct
             max_size == MaxOf(sizes)
             min_size == MinOf(sizes)
             balance_score == 100000 - (max_size - min_size)
         IN Float(silhouette_score * 100 * dict_get(weights, "silhouette_weight", 600)
                  + balance_score * dict_get(weights, "balance_weight", 400))

\* Orchestrator.run, after the fits: the metrics of each valid combination
\* in order, each with its score
run_scored(config, fits) ==
    [i \in DOMAIN fits |->
        [params |-> fits[i].params, metrics |-> fits[i].metrics,
         score |-> score_config(fits[i].metrics, config.scoring)]]

\* the place of x in a list sorted by score, highest first: behind every
\* item whose score is not lower (the sort is stable)
RECURSIVE InsertByScore(_, _)
InsertByScore(x, s) ==
    IF s = <<>> THEN <<x>>
    ELSE IF x.score.v > s[1].score.v THEN <<x>> \o s
    ELSE <<s[1]>> \o InsertByScore(x, Tail(s))
RECURSIVE SortedByScore(_)
SortedByScore(results) ==
    IF results = <<>> THEN <<>>
    ELSE InsertByScore(results[Len(results)],
                       SortedByScore(SubSeq(results, 1, Len(results) - 1)))

\* results.sort(key=lambda x: x['score'], reverse=True): the lists the sort
\* can leave.  Every comparison with a nan score is False, so with a nan
\* among the scores the order that list.sort leaves depends on the
\* comparisons it happens to make: any order is possible.
list_sort_by_score(results) ==
    IF \E i \in DOMAIN results : results[i].score.nan
    THEN {[i \in DOMAIN results |-> results[p[i]]] : p \in Perms(DOMAIN results)}
    ELSE {SortedByScore(results)}

\* Orchestrator.run_all: the lists it can return
run_all(config, fits) == list_sort_by_score(run_scored(config, fits))

\* Orchestrator.get_best: results[0]
get_best(config, fits) ==
    {IF results = <<>>
     THEN [err |-> Raised("IndexError", "list index out of range"), value |-> PyNone]
     ELSE [err |-> NoErr, value |-> results[1]]
     : results \in run_all(config, fits)}

\* Orchestrator.get_best_per_segment_count: the first result of each
\* num_segments in the sorted list
get_best_per_segment_count(config, fits) ==
    {IF \E i \in DOMAIN results : "num_segments" \notin DOMAIN results[i].params
     THEN [err |-> Raised("KeyError", "num_segments"), value |-> PyNone]
     ELSE [err |-> NoErr,
           value |-> [k \in {results[i].params.num_segments : i \in DOMAIN results} |->
                        results[CHOOSE i \in DOMAIN results :
                                   /\ results[i].params.num_segments = k
                                   /\ \A j \in 1..(i - 1) :
                                         results[j].params.num_segments # k]]]
     : results \in run_all(config, fits)}

JunoRunAll ==
    /\ opIn.fn = "juno" /\ opIn.method = "run_all" /\ ~opOut.done
    /\ \E results \in run_all(opIn.config, opIn.fits) :
           opOut' = [done |-> TRUE, err |-> NoErr, value |-> results]
    /\ opIn' = opIn

JunoGetBest ==
    /\ opIn.fn = "juno" /\ opIn.method = "get_best" /\ ~opOut.done
    /\ \E r \in get_best(opIn.config, opIn.fits) :
           opOut' = [done |-> TRUE, err |-> r.err, value |-> r.value]
    /\ opIn' = opIn

JunoGetBestPerSegmentCount ==
    /\ opIn.fn = "juno" /\ opIn.method = "get_best_per_segment_count" /\ ~opOut.done
    /\ \E r \in get_best_per_segment_count(opIn.config, opIn.fits) :
           opOut' = [done |-> TRUE, err |-> r.err, value |-> r.value]
    /\ opIn' = opIn

----------------------------------------------------------------------------
(* soda/api/strategy.py: the tools of create_strategy_tools.  The state of  *)
(* a tool set is the segments of segment_model, each with its strategy, and *)
(* the dict viability_answers of the closure.  A tool call gives the        *)
(* exception it raised, the value returned and the state afterwards.        *)
(***************************************************************************)
StrategyAssignment(name, viable_options, viability_answers, reasoning, warning) ==
    [type |-> "StrategyAssignment", name |-> name, viable_options |-> viable_options,
     viability_answers |-> viability_answers, reasoning |-> reasoning,
     warning |-> warning]

\* next(s for s in segment_model.segments if s.segment_id == segment_id): the
\* index of the first such segment, 0 when next raises StopIteration
next_segment(segments, segment_id) ==
    IF \E i \in DOMAIN segments : segments[i].segment_id = segment_id
    THEN CHOOSE i \in DOMAIN segments :
             /\ segments[i].segment_id = segment_id
             /\ \A j \in 1..(i - 1) : segments[j].segment_id # segment_id
    ELSE 0

\* viability_answers.get(segment_id, {})
viability_answers_get(viability_answers, segment_id) ==
    IF segment_id \in DOMAIN viability_answers
    THEN viability_answers[segment_id]
    ELSE << >>

\* d[key] = value on a dict: a function on its keys
dict_set(d, key, value) ==
    [k \in DOMAIN d \cup {key} |-> IF k = key THEN value ELSE d[k]]

StrategyToolResult(err, value, segments, viability_answers) ==
    [err |-> err, value |-> value, segments |-> segments,
     viability_answers |-> viability_answers]

OnQuestionRaised == [type |-> "raise"]

\* get_segments_overview
get_segments_overview(segments, viability_answers) ==
    StrategyToolResult(NoErr,
        [total_segments |-> Len(segments),
         segments |-> [i \in DOMAIN segments |->
                         [id |-> segments[i].segment_id,
                          name |-> segments[i].name,
                          has_strategy |-> segments[i].strategy # PyNone,
                          needs_strategy |-> segments[i].strategy = PyNone]]],
        segments, viability_answers)

\* ask_viability_question; on_question is the caller's: answer is what it
\* returned, or OnQuestionRaised when it raised
ask_viability_question(segments, viability_answers, segment_id, strategy_name, question_id, answer) ==
    LET seg == next_segment(segments, segment_id)
        tracked == IF segment_id \in DOMAIN viability_answers
                   THEN viability_answers
                   ELSE dict_set(viability_answers, segment_id, << >>)
    IN  IF seg = 0
        THEN StrategyToolResult(Raised("StopIteration", ""), PyNone,
                                segments, viability_answers)
        ELSE IF answer = OnQuestionRaised
        THEN StrategyToolResult(Raised("Exception", "on_question"), PyNone,
                                segments, viability_answers)
        ELSE StrategyToolResult(NoErr,
                 [segment_id |-> segment_id, strategy |-> strategy_name,
                  question_id |-> question_id, answer |-> answer],
                 segments,
                 dict_set(tracked, segment_id,
                          dict_set(tracked[segment_id], question_id, answer)))

\* record_strategy without the check of the answers
record_strategy_unchecked(segments, viability_answers, segment_id, strategy_name) ==
    LET seg == next_segment(segments, segment_id)
        answers == viability_answers_get(viability_answers, segment_id)
    IN  IF seg = 0
        THEN StrategyToolResult(Raised("StopIteration", ""), PyNone,
                                segments, viability_answers)
        ELSE StrategyToolResult(NoErr,
                 <<"Recorded strategy '", strategy_name, "' for segment ",
                   ToString(segment_id), " (", segments[seg].name, ")">>,
                 [segments EXCEPT ![seg].strategy =
                     StrategyAssignment(strategy_name, << >>, answers, "reasoning",
                                        PyNone)],
                 viability_answers)

\* record_strategy(segment_id, strategy_name, reasoning): warning and
\* viable_options are left at their defaults
record_strategy(segments, viability_answers, segment_id, strategy_name) ==
    LET seg == next_segment(segments, segment_id)
        answers == viability_answers_get(viability_answers, segment_id)
    IN  IF seg = 0
        THEN StrategyToolResult(Raised("StopIteration", ""), PyNone,
                                segments, viability_answers)
        ELSE IF strategy_name # "sustaining" /\ answers = << >>
        THEN StrategyToolResult(NoErr,
                 <<"ERROR: Cannot record strategy '", strategy_name,
                   "' - no viability questions were asked. You MUST call ask_viability_question first.">>,
                 segments, viability_answers)
        ELSE StrategyToolResult(NoErr,
                 <<"Recorded strategy '", strategy_name, "' for segment ",
                   ToString(segment_id), " (", segments[seg].name, ")">>,
                 [segments EXCEPT ![seg].strategy =
                     StrategyAssignment(strategy_name, << >>, answers, "reasoning",
                                        PyNone)],
                 viability_answers)

\* One call of a tool by the agent.  opOut is the tool set: its state, the
\* last call with the segments before it and the result it gave, the ids
\* ask_viability_question was called for and the ids whose strategy a
\* record_strategy call of this tool set wrote.
StrategyCall(tool, segment_id, strategy_name, r) ==
    /\ opIn.fn = "strategy"
    /\ opOut' = [done |-> FALSE, err |-> r.err, value |-> r.value,
                 segments |-> r.segments,
                 viability_answers |-> r.viability_answers,
                 calls |-> opOut.calls + 1,
                 last |-> [tool |-> tool, segment_id |-> segment_id,
                           strategy_name |-> strategy_name,
                           before |-> opOut.segments],
                 asked |-> IF tool = "ask_viability_question"
                           THEN opOut.asked \cup {segment_id} ELSE opOut.asked,
                 recorded |-> IF tool = "record_strategy"
                                 /\ r.segments # opOut.segments
                              THEN opOut.recorded \cup {segment_id}
                              ELSE opOut.recorded]
    /\ opIn' = opIn

StrategyGetSegmentsOverview ==
    StrategyCall("get_segments_overview", 0, "",
                 get_segments_overview(opOut.segments, opOut.viability_answers))

StrategyAskViabilityQuestion ==
    \E segment_id \in opIn.segment_ids, strategy_name \in opIn.asked_strategies,
       question_id \in opIn.question_ids, answer \in {PyBool(TRUE), PyBool(FALSE), OnQuestionRaised} :
        StrategyCall("ask_viability_question", segment_id, strategy_name,
                     ask_viability_question(opOut.segments, opOut.viability_answers,
                                            segment_id, strategy_name, question_id,
                                            answer))

StrategyRecordStrategy ==
    \E segment_id \in opIn.segment_ids, strategy_name \in opIn.strategy_names :
        StrategyCall("record_strategy", segment_id, strategy_name,
                     record_strategy(opOut.segments, opOut.viability_answers,
                                     segment_id, strategy_name))

----------------------------------------------------------------------------
(* soda/synthesis/workflow.py with synthesis/state.py and the naming tools  *)
(* of soda/synthesis/tools.py.  The workflow is its state (the segment ids  *)
(* in order, the names dict, the pending suggestions), the fields           *)
(* _segment_id and the event in flight: a step takes the event of its type  *)
(* and the value it returns is the next event, None when it returns None.   *)
(* The agent is not computed: during agent.run it makes any one call of     *)
(* record_segment_name, or none.                                            *)
(***************************************************************************)
StartEvent == [type |-> "StartEvent"]
NamingPhaseEvent(segment_id) == [type |-> "NamingPhaseEvent", segment_id |-> segment_id]
SynthesisCompleteEvent == [type |-> "SynthesisCompleteEvent"]
InputRequiredEvent == [type |-> "InputRequiredEvent"]
HumanResponseEvent(response) == [type |-> "HumanResponseEvent", response |-> response]
StopEvent(result) == [type |-> "StopEvent", result |-> result]

\* SynthesisState.set_name: _validate_segment_id raises ValueError for an id
\* that is not a segment's and the names are left as they were
set_name(segment_ids, names, segment_id, name) ==
    IF segment_id \notin Range(segment_ids)
    THEN names
    ELSE [k \in DOMAIN names \cup {segment_id} |->
            IF k = segment_id THEN name ELSE names[k]]

\* the names after agent.run: the agent called record_segment_name once with
\* some arguments, or did not call it
agent_run(segment_ids, names, ids, candidates) ==
    {names} \cup {set_name(segment_ids, names, i, n) : i \in ids, n \in candidates}

\* for seg in self.state.segments: if seg.segment_id not in self.state.names:
\*     return NamingPhaseEvent(...); return SynthesisCompleteEvent()
next_event(segment_ids, names) ==
    IF \E i \in DOMAIN segment_ids : segment_ids[i] \notin DOMAIN names
    THEN NamingPhaseEvent(
             segment_ids[CHOOSE i \in DOMAIN segment_ids :
                            /\ segment_ids[i] \notin DOMAIN names
                            /\ \A j \in 1..(i - 1) : segment_ids[j] \in DOMAIN names])
    ELSE SynthesisCompleteEvent

\* the name a response resolves to: a response is its text, whether it is
\* all digits and, when it is, its int
resolve_choice(response, options) ==
    IF response.isdigit /\ 1 <= response.int /\ response.int <= Len(options)
    THEN options[response.int]
    ELSE response.text

\* SynthesisState.to_dict, with no strategy recorded
to_dict(segment_ids, names) ==
    [segments |-> [i \in DOMAIN segment_ids |->
                     [segment_id |-> segment_ids[i],
                      name |-> IF segment_ids[i] \in DOMAIN names
                               THEN names[segment_ids[i]] ELSE "None"]],
     complete |-> segment_ids = << >>]

SynthesisStep(step, event, names, segment_id) ==
    opOut' = [opOut EXCEPT !.event = event, !.names = names,
                           !._segment_id = segment_id, !.step = step]

\* SynthesisWorkflow.start
SynthesisStart ==
    /\ opIn.fn = "synthesis" /\ opOut.event = StartEvent
    /\ SynthesisStep("start", next_event(opIn.segment_ids, opOut.names),
                     opOut.names, opOut._segment_id)
    /\ opIn' = opIn

\* SynthesisWorkflow.naming_phase
SynthesisNamingPhase ==
    /\ opIn.fn = "synthesis" /\ opOut.event.type = "NamingPhaseEvent"
    /\ \E names \in agent_run(opIn.segment_ids, opOut.names, opIn.agent_ids,
                              Range(opIn.options)) :
           SynthesisStep("naming_phase", InputRequiredEvent, names,
                         opOut.event.segment_id)
    /\ opIn' = opIn

\* the caller answers the InputRequiredEvent with a HumanResponseEvent
SynthesisHumanResponse ==
    /\ opIn.fn = "synthesis" /\ opOut.event = InputRequiredEvent
    /\ \E response \in opIn.responses :
           SynthesisStep("caller", HumanResponseEvent(response), opOut.names,
                         opOut._segment_id)
    /\ opIn' = opIn

\* SynthesisWorkflow.handle_response
SynthesisHandleResponse ==
    /\ opIn.fn = "synthesis" /\ opOut.event.type = "HumanResponseEvent"
    /\ LET segment_id == opOut._segment_id
           name == resolve_choice(opOut.event.response, opIn.options)
       IN  \E names \in agent_run(opIn.segment_ids, opOut.names, opIn.agent_ids,
                                  {name, "Other"}) :
               SynthesisStep("handle_response",
                             IF segment_id \in DOMAIN names
                             THEN next_event(opIn.segment_ids, names)
                             ELSE PyNone,
                             names, segment_id)
    /\ opIn' = opIn

\* SynthesisWorkflow.complete
SynthesisComplete ==
    /\ opIn.fn = "synthesis" /\ opOut.event = SynthesisCompleteEvent
    /\ SynthesisStep("complete", StopEvent(to_dict(opIn.segment_ids, opOut.names)),
                     opOut.names, opOut._segment_id)
    /\ opIn' = opIn

----------------------------------------------------------------------------
(* Specifications *)

IdleBuilderVars ==
    /\ cfg = DefaultConfig
    /\ fitted = FALSE
    /\ context = PyNone
    /\ pc = "idle"
    /\ arg = NoArg
    /\ stepIdx = 1
    /\ ran = <<>>
    /\ outcome = Pending
    /\ nFit = 0
    /\ nCtx = 0
    /\ everFit = FALSE

\* a SegmentBuilder and its caller
Init == InitBuilderVars /\ InitCtxVars /\ InitSzVars /\ InitOpVars

Fit == \E responses \in Inputs : FitCall(responses) /\ UNCHANGED <<ctxVars, szVars, opVars>>
Step == RunStep /\ UNCHANGED <<ctxVars, szVars, opVars>>
Return == FitReturn /\ UNCHANGED <<ctxVars, szVars, opVars>>

Next == Fit \/ Step \/ Return

Spec == Init /\ [][Next]_vars

\* a Context and its client
InitCtx == IdleBuilderVars /\ InitCtxVars /\ InitSzVars /\ InitOpVars

SetState ==
    \E key \in CtxStateKeys, value \in CtxStateValues :
        CtxSetState(key, value) /\ UNCHANGED <<builderVars, szVars, opVars>>
AddTable ==
    \E key \in CtxTableKeys, df \in CtxTableValues :
        CtxAddTable(key, df) /\ UNCHANGED <<builderVars, szVars, opVars>>
RequireState ==
    \E key \in CtxStateKeys : CtxRequireState(key) /\ UNCHANGED <<builderVars, szVars, opVars>>
RequireTable ==
    \E key \in CtxTableKeys : CtxRequireTable(key) /\ UNCHANGED <<builderVars, szVars, opVars>>
SetPrimary ==
    \E df \in CtxTableValues : CtxSetPrimary(df) /\ UNCHANGED <<builderVars, szVars, opVars>>
RequirePrimary == CtxRequirePrimary /\ UNCHANGED <<builderVars, szVars, opVars>>

NextCtx == SetState \/ AddTable \/ RequireState \/ RequireTable \/ SetPrimary \/ RequirePrimary

SpecCtx == InitCtx /\ [][NextCtx]_vars

\* the size percentages
InitSizes ==
    /\ IdleBuilderVars /\ InitCtxVars /\ InitOpVars
    /\ szIn \in {[k |-> k, labels |-> <<>>] : k \in 1..MaxSzSegments}
    /\ szOut = SzPending

AppendLabel ==
    \E label \in 0..(szIn.k - 1) : SzAppend(label) /\ UNCHANGED <<builderVars, ctxVars, opVars>>
ComputeSizes == SzCompute /\ UNCHANGED <<builderVars, ctxVars, opVars>>

NextSizes == AppendLabel \/ ComputeSizes

SpecSizes == InitSizes /\ [][NextSizes]_vars

\* the opportunity formulas
InitOpp ==
    /\ IdleBuilderVars /\ InitCtxVars /\ InitSzVars
    /\ opIn \in OpInputs
    /\ opOut = OpPending

Individual == ApplyIndividual /\ UNCHANGED <<builderVars, ctxVars, szVars>>
Aggregate == ApplyAggregate /\ UNCHANGED <<builderVars, ctxVars, szVars>>

NextOpp == Individual \/ Aggregate

SpecOpp == InitOpp /\ [][NextOpp]_vars

----------------------------------------------------------------------------
(* The SelectKeyOutcomes step on its own: a Context that holds a loadings  *)
(* table of a few features and components, and the step's three fields    *)

SelMaxFeatures == 2
SelComponentCounts == {1, 2}
SelMaxPerComponent == 2

\* loadings in thousandths: weak, above the default thresholds, strong
SelLoadings == {100, 500, 0 - 900}
\* maximum_cross_loading and minimal_primary_loading, in thousandths
SelCross == {0 - 100, 0, 300, 500}
SelPrimary == {350, 500, 1100}

SelMatrices ==
    UNION {
        {DataFrameIdx([j \in 1..nc |-> primary_component_col(j)],
                      [i \in 1..nf |-> [comp \in {primary_component_col(j) : j \in 1..nc} |->
                                           m[i][comp.id]]],
                      [i \in 1..nf |-> importance_col(i)])
         : m \in [1..nf -> [1..nc -> SelLoadings]]}
        : nf \in 1..SelMaxFeatures, nc \in SelComponentCounts}

SelInputs ==
    [fn : {"select_key_outcomes"},
     loadings : SelMatrices,
     max_outcomes_per_component : 0..SelMaxPerComponent,
     maximum_cross_loading : SelCross,
     minimal_primary_loading : SelPrimary]

\* ctx.add_table(DERIVED_TABLE_PCA_LOADINGS, ...) by ComputeFactorLoadings, then
\* SelectKeyOutcomes(...).run(ctx)
ApplySelectKeyOutcomes ==
    /\ opIn.fn = "select_key_outcomes" /\ ~opOut.done
    /\ LET c == add_table(NewContext, DERIVED_TABLE_PCA_LOADINGS, opIn.loadings).ctx
           step == [name |-> "select_key_outcomes",
                    max_outcomes_per_component |-> opIn.max_outcomes_per_component,
                    maximum_cross_loading |-> opIn.maximum_cross_loading,
                    minimal_primary_loading |-> opIn.minimal_primary_loading]
       IN \E r \in SelectKeyOutcomes_run(step, c) :
              opOut' = [done |-> TRUE, err |-> r.err,
                        value |-> StateAt(r.ctx, DERIVED_LIST_KEY_OUTCOMES)]
    /\ opIn' = opIn

InitSel ==
    /\ IdleBuilderVars /\ InitCtxVars /\ InitSzVars
    /\ opIn \in SelInputs
    /\ opOut = OpPending

SelectKeyOutcomesStep == ApplySelectKeyOutcomes /\ UNCHANGED <<builderVars, ctxVars, szVars>>

NextSel == SelectKeyOutcomesStep

SpecSel == InitSel /\ [][NextSel]_vars

\* An Orchestrator and its caller: a sweep, the table, and the method called.
\* run is iterated by its caller; run_all is list(run(...)).
OrchNames == {"num_segments", "max_cross_loading", "min_primary_loading"}
OrchConstraints == [type : {"less_than", "greater_than", "not_equal"}, left : OrchNames, right : OrchNames]

OrchParameters ==
    {<<>>}
    \cup {<<[name |-> "num_segments", values |-> ns]>> :
            ns \in {<<>>, <<2>>, <<2, 4, 3>>}}
    \cup {<<[name |-> "num_segments", values |-> <<2, 3>>],
            [name |-> "random_state", values |-> <<1, 2>>]>>}
    \cup {<<[name |-> "max_cross_loading", values |-> cs],
            [name |-> "min_primary_loading", values |-> <<350, 500>>]>> :
            cs \in {<<300>>, <<300, 500>>}}

OrchSweeps ==
    {OrchestrationConfig(parameters, constraints) :
        parameters \in OrchParameters,
        constraints \in {<<>>} \cup {<<c>> : c \in OrchConstraints}}

\* three respondents of three profiles: too few for four segments
OrchResponses == make_responses(<<1, 2, 3>>, NumOutcomes)

OrchInputs ==
    [fn : {"orchestrator"}, config : OrchSweeps,
     method : {"count_configs", "get_valid_config_count", "run", "run_all"},
     responses : {OrchResponses}]

InitOrch ==
    /\ IdleBuilderVars /\ InitCtxVars /\ InitSzVars
    /\ opIn \in OrchInputs
    /\ opOut = OrchPending

Count == OrchCount /\ UNCHANGED <<ctxVars, szVars>>
Construct == OrchConstruct /\ UNCHANGED <<ctxVars, szVars>>
FitCombination == OrchFit /\ UNCHANGED <<ctxVars, szVars>>
Yield == OrchYield /\ UNCHANGED <<ctxVars, szVars>>

NextOrch == Count \/ Construct \/ FitCombination \/ Step \/ Return \/ Yield

SpecOrch == InitOrch /\ [][NextOrch]_vars

\* A SegmentationSelector and its caller: the rules, and the results of a
\* sweep, each with the position of its combination as its params
MaxResults == 3

SelectionRules ==
    {DefaultSelectionRules,
     [DefaultSelectionRules EXCEPT !.silhouette_weight = 0, !.balance_weight = 1000],
     [DefaultSelectionRules EXCEPT !.silhouette_weight = 0, !.balance_weight = 0],
     [DefaultSelectionRules EXCEPT !.min_segment_size_percent = 0, !.min_silhouette = 0 - 1000]}

SelectorMetrics ==
    [silhouette_mean : {FloatNaN} \cup {Float(x) : x \in {0 - 100, 250, 900}},
     cluster_sizes_pct : {<<50000, 50000>>, <<5000, 95000>>, <<20000, 30000, 50000>>}]

SelectorInputs ==
    [fn : {"select_best"}, config : SelectionRules,
     all_results : UNION {{[i \in 1..n |-> [params |-> i, metrics |-> ms[i]]] :
                              ms \in [1..n -> SelectorMetrics]} : n \in 0..MaxResults}]

InitSelector ==
    /\ IdleBuilderVars /\ InitCtxVars /\ InitSzVars
    /\ opIn \in SelectorInputs
    /\ opOut = OpPending

SelectBest == ApplySelectBest /\ UNCHANGED <<builderVars, ctxVars, szVars>>

SpecSelector == InitSelector /\ [][SelectBest]_vars

\* A ZoneClassifier and its caller: the rules, and an outcome's top-box
\* percentages and opportunity score, below, at and above the thresholds
ZoneRules ==
    {DefaultZoneRules,
     [DefaultZoneRules EXCEPT !.opportunity_threshold = 0],
     [DefaultZoneRules EXCEPT !.importance_threshold = 50000, !.satisfaction_threshold = 60000]}

ZoneInputs ==
    [fn : {"classify_outcome"}, config : ZoneRules,
     imp_tb : {0, 49900, 50000, 60000, 100000},
     sat_tb : {0, 49900, 50000, 60000, 100000},
     opportunity : {0, 9990, 10000, 20000}]

InitZone ==
    /\ IdleBuilderVars /\ InitCtxVars /\ InitSzVars
    /\ opIn \in ZoneInputs
    /\ opOut = OpPending

ClassifyOutcome == ApplyClassifyOutcome /\ UNCHANGED <<builderVars, ctxVars, szVars>>

SpecZone == InitZone /\ [][ClassifyOutcome]_vars

\* Builders of a few configurations, fitted in any order on one table
RepeatConfigs ==
    {[DefaultConfig EXCEPT !.num_segments = 2],
     [DefaultConfig EXCEPT !.num_segments = 2, !.random_state = 3],
     DefaultConfig}

InitRepeat ==
    /\ InitCtxVars /\ InitSzVars
    /\ IdleBuilderVars
    /\ opIn = [fn |-> "repeat", responses |-> OrchResponses, memo |-> {}]
    /\ opOut = [done |-> FALSE, err |-> NoErr, value |-> PyNone, observed |-> FALSE, seen |-> <<>>]

NewBuilder == \E config \in RepeatConfigs : RepeatConstruct(config) /\ UNCHANGED <<ctxVars, szVars>>
FitAgain == RepeatFit /\ UNCHANGED <<ctxVars, szVars>>
StepAgain == RepeatStep /\ UNCHANGED <<ctxVars, szVars>>
ReturnAgain == FitReturn /\ UNCHANGED <<ctxVars, szVars, opVars>>
Observe == RepeatObserve /\ UNCHANGED <<ctxVars, szVars>>

NextRepeat == NewBuilder \/ FitAgain \/ StepAgain \/ ReturnAgain \/ Observe

SpecRepeat == InitRepeat /\ [][NextRepeat]_vars


\* ResponsesLoader on its own: files of up to MaxLines lines about two
\* respondents and two outcomes
MaxLines == 3
LoaderRatings == {<<2, 5>>, <<5, 2>>, <<3, 3>>}
LoaderLines ==
    {BlankLine, InvalidLine}
    \cup {ResponseRecord(r, o, x[1], x[2]) : r \in {1, 2}, o \in {1, 2}, x \in LoaderRatings}
LoaderInputs ==
    {[fn |-> "_load_from_file", file_handle |-> f] :
        f \in UNION {[1..n -> LoaderLines] : n \in 0..MaxLines}}

InitLoader ==
    /\ IdleBuilderVars /\ InitCtxVars /\ InitSzVars
    /\ opIn \in LoaderInputs
    /\ opOut = OpPending

LoadFromFile == ApplyLoadFromFile /\ UNCHANGED <<builderVars, ctxVars, szVars>>

SpecLoader == InitLoader /\ [][LoadFromFile]_vars

\* The sorted views of the juno Orchestrator on their own: the fits of a
\* sweep over num_segments have returned these metrics.  With one segment
\* metrics gives a nan silhouette and one cluster of 100 percent.
JunoFits ==
    {[params |-> [num_segments |-> 1],
      metrics |-> [silhouette_mean |-> FloatNaN, cluster_sizes_pct |-> <<100000>>]]}
    \cup {[params |-> [num_segments |-> 2],
           metrics |-> [silhouette_mean |-> Float(x), cluster_sizes_pct |-> sizes]] :
            x \in {250, 900}, sizes \in {<<50000, 50000>>, <<5000, 95000>>}}
    \cup {[params |-> [num_segments |-> 3],
           metrics |-> [silhouette_mean |-> Float(400),
                        cluster_sizes_pct |-> <<20000, 30000, 50000>>]]}
JunoScoring ==
    {[silhouette_weight |-> 600, balance_weight |-> 400],
     [silhouette_weight |-> 1000, balance_weight |-> 0]}
JunoInputs ==
    [fn : {"juno"},
     method : {"run_all", "get_best", "get_best_per_segment_count"},
     config : [scoring : JunoScoring],
     fits : UNION {[1..n -> JunoFits] : n \in 0..MaxResults}]

InitJuno ==
    /\ IdleBuilderVars /\ InitCtxVars /\ InitSzVars
    /\ opIn \in JunoInputs
    /\ opOut = OpPending

RunAll == JunoRunAll /\ UNCHANGED <<builderVars, ctxVars, szVars>>
GetBest == JunoGetBest /\ UNCHANGED <<builderVars, ctxVars, szVars>>
GetBestPerSegmentCount ==
    JunoGetBestPerSegmentCount /\ UNCHANGED <<builderVars, ctxVars, szVars>>

NextJuno == RunAll \/ GetBest \/ GetBestPerSegmentCount

SpecJuno == InitJuno /\ [][NextJuno]_vars

\* The strategy tools on their own: a segment model of two segments, the
\* second of which may hold the strategy of an earlier run, and an agent
\* that calls the tools in any order with any arguments, an unknown segment
\* id among them
MaxToolCalls == 4
StrategySegments ==
    {<<[segment_id |-> 0, name |-> "A", strategy |-> PyNone],
       [segment_id |-> 1, name |-> "B", strategy |-> s]>> :
        s \in {PyNone,
               StrategyAssignment("disruptive", << >>, [q1 |-> PyBool(TRUE)], "reasoning",
                                  PyNone)}}
StrategyInputs ==
    [fn : {"strategy"},
     segments : StrategySegments,
     segment_ids : {0..2},
     strategy_names : {{"sustaining", "differentiated"}},
     asked_strategies : {{"differentiated"}},
     question_ids : {{"q1"}}]

InitStrategy ==
    /\ IdleBuilderVars /\ InitCtxVars /\ InitSzVars
    /\ opIn \in StrategyInputs
    /\ opOut = [done |-> FALSE, err |-> NoErr, value |-> PyNone,
                segments |-> opIn.segments, viability_answers |-> << >>,
                calls |-> 0,
                last |-> [tool |-> "", segment_id |-> 0, strategy_name |-> "",
                          before |-> opIn.segments],
                asked |-> {}, recorded |-> {}]

GetSegmentsOverview ==
    /\ opOut.calls < MaxToolCalls
    /\ StrategyGetSegmentsOverview
    /\ UNCHANGED <<builderVars, ctxVars, szVars>>
AskViabilityQuestion ==
    /\ opOut.calls < MaxToolCalls
    /\ StrategyAskViabilityQuestion
    /\ UNCHANGED <<builderVars, ctxVars, szVars>>
RecordStrategy ==
    /\ opOut.calls < MaxToolCalls
    /\ StrategyRecordStrategy
    /\ UNCHANGED <<builderVars, ctxVars, szVars>>

NextStrategy == GetSegmentsOverview \/ AskViabilityQuestion \/ RecordStrategy

SpecStrategy == InitStrategy /\ [][NextStrategy]_vars

\* The naming workflow on its own: a state of up to MaxNamingSegments
\* segments, some of which the tools may have named before the run, a
\* caller that answers with a number or a name, and an agent that records
\* under any segment id, an unknown one among them
MaxNamingSegments == 3
NamingOptions == <<"Option 1", "Option 2">>
NamingResponses ==
    {[text |-> "2", isdigit |-> TRUE, int |-> 2],
     [text |-> "7", isdigit |-> TRUE, int |-> 7],
     [text |-> "Bargain hunters", isdigit |-> FALSE, int |-> 0]}
SynthesisInputs ==
    UNION {[fn : {"synthesis"},
            segment_ids : {[i \in 1..n |-> i - 1]},
            names : UNION {[ids -> {"Earlier"}] : ids \in SUBSET (0..(n - 1))},
            agent_ids : {0..n},
            options : {NamingOptions},
            responses : {NamingResponses}] : n \in 0..MaxNamingSegments}

InitSynthesis ==
    /\ IdleBuilderVars /\ InitCtxVars /\ InitSzVars
    /\ opIn \in SynthesisInputs
    /\ opOut = [done |-> FALSE, err |-> NoErr, value |-> PyNone,
                event |-> StartEvent, names |-> opIn.names, _segment_id |-> 0 - 1,
                step |-> ""]

Start == SynthesisStart /\ UNCHANGED <<builderVars, ctxVars, szVars>>
NamingPhase == SynthesisNamingPhase /\ UNCHANGED <<builderVars, ctxVars, szVars>>
HumanResponse == SynthesisHumanResponse /\ UNCHANGED <<builderVars, ctxVars, szVars>>
HandleResponse == SynthesisHandleResponse /\ UNCHANGED <<builderVars, ctxVars, szVars>>
Complete == SynthesisComplete /\ UNCHANGED <<builderVars, ctxVars, szVars>>

NextSynthesis == Start \/ NamingPhase \/ HumanResponse \/ HandleResponse \/ Complete

SpecSynthesis == InitSynthesis /\ [][NextSynthesis]_vars

----------------------------------------------------------------------------
(* Properties *)

NotFitted == Raised("ValueError", "SegmentAnalyzer not fitted. Call fit() first.")
MissingKey ==
    { Raised("KeyError", "Required state key not found in context"),
      Raised("KeyError", "Required table key not found in context") }
StepOrder ==
    << "validate_preflight", "standardize_importance", "determine_components",
       "determine_loadings", "select_key_outcomes", "filter_to_key_outcomes",
       "assign_segments", "characterize_segments" >>

\* the last fit call has returned, and returned normally
FitSucceeded == pc = "idle" /\ outcome = NoErr
\* the last fit call has raised the fit-level error
FitFailed == pc = "idle" /\ outcome.type = "RuntimeError"

\* C1: a set_state or add_table on a key that already holds a value is
\* rejected with an error and leaves the value under that key unchanged.
C1_WriteOnce ==
    (ctxRes.op \in {"set_state", "add_table"} /\ ctxRes.had)
        => (ctxRes.err # NoErr /\ ctxRes.after = ctxRes.before)

\* C2: when a step raises during fit, the failing step is the last one that
\* ran, fit raises one fit-level error that wraps the step's error, and the
\* builder is unfitted: model, metrics and assignments raise not-fitted.
C2_StepFailureAbortsFit ==
    FitFailed =>
        /\ outcome.msg = "Segmentation failed"
        /\ outcome.cause # NoErr /\ outcome.cause.type # "RuntimeError"
        /\ ran = SubSeq(StepOrder, 1, stepIdx)
        /\ ~fitted
        /\ model(fitted, context).err = NotFitted
        /\ metrics(cfg, fitted, context).err = NotFitted
        /\ assignments(fitted, context).err = NotFitted

\* a step failed in a fit that followed a successful fit of the same builder
C2_Witness ==
    /\ FitFailed /\ everFit
    /\ Len(ran) \in 2..7

\* C3: the steps of a fit run in the fixed order, each at most once and, in
\* a fit that succeeds, each exactly once; no step fails on a missing
\* context key.
C3_FixedOrderNoMissingKey ==
    /\ Len(ran) <= Len(StepOrder)
    /\ ran = SubSeq(StepOrder, 1, Len(ran))
    /\ FitSucceeded => ran = StepOrder
    /\ FitFailed => outcome.cause \notin MissingKey

C3_Witness == FitSucceeded /\ ran = StepOrder /\ nFit = 2

\* C4: while no fit call of the builder has completed successfully, model,
\* metrics and assignments each raise the not-fitted error and give no value.
C4_UnfittedViewsRaise ==
    ~everFit =>
        /\ model(fitted, context) = [err |-> NotFitted, value |-> PyNone]
        /\ metrics(cfg, fitted, context) = [err |-> NotFitted, value |-> PyNone]
        /\ assignments(fitted, context) = [err |-> NotFitted, value |-> PyNone]

\* a fit was tried and failed in a step, and none has succeeded
C4_Witness == ~everFit /\ FitFailed /\ context # PyNone

\* what C5 lists: not a table, empty, no satisfaction or no importance
\* columns, unequal counts of the two, or fewer rows than num_segments
Rejectable(shape, self) ==
    \/ ~shape.is_table
    \/ shape.n_rows = 0 \/ shape.n_columns = 0
    \/ shape.n_sat = 0 \/ shape.n_imp = 0
    \/ shape.n_sat # shape.n_imp
    \/ shape.n_rows < self.num_segments

\* C5: a fit call with such an input raises a validation error, creates no
\* Context and runs no step.
C5_InvalidInputRejectedFirst ==
    [][(nFit' = nFit + 1 /\ Rejectable(arg', cfg)) =>
          /\ outcome'.type = "ValueError"
          /\ pc' = "idle"
          /\ nCtx' = nCtx /\ context' = context
          /\ ran' = ran /\ stepIdx' = stepIdx]_vars

\* a table with fewer rows than num_segments was rejected and no Context
\* has been created
C5_Witness ==
    /\ nFit = 1 /\ nCtx = 0 /\ context = PyNone
    /\ arg.is_table /\ arg.n_rows > 0 /\ arg.n_sat = arg.n_imp /\ arg.n_sat > 0
    /\ arg.n_rows < cfg.num_segments
    /\ outcome.type = "ValueError"

\* C6: after a successful fit of N respondents with the ids 1..N into k
\* segments, assignments maps exactly these N ids, each to a segment id in
\* 0..k-1.
C6_AssignmentsCoverInput ==
    FitSucceeded =>
        LET a == assignments(fitted, context) IN
        /\ a.err = NoErr
        /\ DOMAIN a.value.assignments = 1..arg.n_rows
        /\ \A id \in DOMAIN a.value.assignments :
              a.value.assignments[id] \in 0..(cfg.num_segments - 1)

C6_Witness ==
    /\ FitSucceeded /\ arg.n_rows = 3 /\ cfg.num_segments = 2
    /\ LET a == assignments(fitted, context).value.assignments
       IN a[1] = 1 /\ a[2] = 0 /\ a[3] = 1

\* the sum of the size_pct column of the segment sizes, in thousandths
SizePctSum == SumSeq(Column(szOut.cluster_sizes, SIZE_PCT))
\* the sum of cluster_sizes_pct, as the numerator over the common
\* denominator Len(szIn.labels)
ClusterPctNum ==
    SumSeq([j \in DOMAIN szOut.cluster_sizes_pct |-> szOut.cluster_sizes_pct[j].num])

\* C7, as stated: the size_pct values, each rounded to one decimal, and the
\* cluster_sizes_pct values each sum to 100 within 0.1.
C7_SumWithinTenth ==
    szOut.done =>
        /\ Abs(SizePctSum - 100 * 1000) <= 100
        /\ Abs(1000 * ClusterPctNum - 100 * 1000 * Len(szIn.labels))
              <= 100 * Len(szIn.labels)

\* C7, amended: cluster_sizes_pct sums to 100; the size_pct values, each
\* rounded to one decimal, sum to 100 within 0.05 per segment that has a
\* respondent.
C7_SumWithinRounding ==
    szOut.done =>
        /\ ClusterPctNum = 100 * Len(szIn.labels)
        /\ Abs(SizePctSum - 100 * 1000) <= 50 * Len(szOut.cluster_sizes.rows)

\* six respondents, one in each of six segments: 6 * 16.7 = 100.2
C7_Witness ==
    /\ szOut.done /\ szIn.k = 6 /\ Len(szIn.labels) = 6
    /\ SizePctSum = 100200

\* C8: after a successful fit with num_segments = k the model has exactly k
\* segments, with the ids 0..k-1 in turn, and each segment has exactly one
\* outcome record per outcome of the input table.
C8_ModelHasKSegments ==
    FitSucceeded =>
        LET m == model(fitted, context) IN
        /\ m.err = NoErr
        /\ Len(m.value.segments) = cfg.num_segments
        /\ \A j \in DOMAIN m.value.segments :
              /\ m.value.segments[j].segment_id = j - 1
              /\ Len(m.value.segments[j].outcomes) = arg.n_sat
              /\ {m.value.segments[j].outcomes[o].outcome_id :
                     o \in DOMAIN m.value.segments[j].outcomes} = 1..arg.n_sat

\* C9: for ratings imp and sat in 1..5 the individual opportunity is imp
\* when sat >= imp and 2*imp - sat when sat < imp; it is never below imp and
\* lies in 1..10.
C9_IndividualOpportunity ==
    (opOut.done /\ opIn.fn = "individual") =>
        /\ opOut.err = NoErr
        /\ opOut.value = IF opIn.satisfaction >= opIn.importance
                         THEN opIn.importance
                         ELSE 2 * opIn.importance - opIn.satisfaction
        /\ opOut.value >= opIn.importance
        /\ opOut.value \in 1..10

C9_Witness ==
    /\ opOut.done /\ opIn.fn = "individual"
    /\ opIn.importance = 5 /\ opIn.satisfaction = 2 /\ opOut.value = 8

InPctRange(x) == 0 <= x /\ x <= 100 * 1000

\* C10: the aggregate opportunity raises exactly when a percentage is
\* outside [0, 100]; otherwise it is imp/10 + max(imp/10 - sat/10, 0), one
\* tenth of imp + max(imp - sat, 0), and lies in [0, 20].
C10_AggregateOpportunity ==
    (opOut.done /\ opIn.fn = "aggregate") =>
        /\ (opOut.err # NoErr) <=>
               ~(InPctRange(opIn.importance) /\ InPctRange(opIn.satisfaction))
        /\ opOut.err # NoErr => opOut.err.type = "ValueError"
        /\ opOut.err = NoErr =>
              /\ 10 * opOut.value =
                    opIn.importance +
                    (IF opIn.importance > opIn.satisfaction
                     THEN opIn.importance - opIn.satisfaction ELSE 0)
              /\ opOut.value \in 0..(20 * 1000)

C10_Witness ==
    /\ opOut.done /\ opIn.fn = "aggregate" /\ opOut.err = NoErr
    /\ opIn.importance = 100 * 1000 /\ opIn.satisfaction = 0
    /\ opOut.value = 20 * 1000

\* the thresholds of the call satisfy 0 <= max_cross < min_primary <= 1.0
SelThresholdsValid ==
    /\ 0 <= opIn.maximum_cross_loading
    /\ opIn.maximum_cross_loading < opIn.minimal_primary_loading
    /\ opIn.minimal_primary_loading <= 1000
SelFeatures == Range(opIn.loadings.index)
SelComponents == Range(opIn.loadings.columns)
\* the absolute loading of a feature on a component
SelStrength(feat, comp) ==
    LET i == CHOOSE i \in DOMAIN opIn.loadings.index : opIn.loadings.index[i] = feat
    IN Abs(opIn.loadings.rows[i][comp])
\* feat passes both filters for comp
SelPasses(feat, comp) ==
    /\ SelStrength(feat, comp) >= opIn.minimal_primary_loading
    /\ \A other \in SelComponents \ {comp} :
          SelStrength(feat, other) < opIn.maximum_cross_loading
SelStrongest(feat, comp) == \A f \in SelFeatures : SelStrength(f, comp) <= SelStrength(feat, comp)
SelSelected == opOut.done /\ opIn.fn = "select_key_outcomes" /\ SelThresholdsValid

\* C11, as stated: with valid thresholds the list holds, for each component,
\* an outcome that passes both filters for it or, when no outcome passes
\* both, an outcome with the highest absolute loading on it; and every
\* outcome of the list is there for such a reason.
C11_EveryComponentContributes ==
    SelSelected =>
        /\ opOut.err = NoErr
        /\ \A comp \in SelComponents :
              IF \E f \in SelFeatures : SelPasses(f, comp)
              THEN \E f \in Range(opOut.value.v) : SelPasses(f, comp)
              ELSE \E f \in Range(opOut.value.v) : SelStrongest(f, comp)
        /\ \A f \in Range(opOut.value.v) :
              \E comp \in SelComponents :
                  \/ SelPasses(f, comp)
                  \/ SelStrongest(f, comp) /\ ~\E g \in SelFeatures : SelPasses(g, comp)

\* C11, amended: the fallback to the strongest outcome applies when the walk
\* accepts none, which is when no outcome passes both filters or when
\* max_outcomes_per_component is below 1.
C11_EveryComponentContributesOrFallsBack ==
    SelSelected =>
        /\ opOut.err = NoErr
        /\ \A comp \in SelComponents :
              IF opIn.max_outcomes_per_component >= 1 /\ \E f \in SelFeatures : SelPasses(f, comp)
              THEN \E f \in Range(opOut.value.v) : SelPasses(f, comp)
              ELSE \E f \in Range(opOut.value.v) : SelStrongest(f, comp)
        /\ \A f \in Range(opOut.value.v) :
              \E comp \in SelComponents :
                  \/ opIn.max_outcomes_per_component >= 1 /\ SelPasses(f, comp)
                  \/ /\ SelStrongest(f, comp)
                     /\ \/ opIn.max_outcomes_per_component < 1
                        \/ ~\E g \in SelFeatures : SelPasses(g, comp)

\* two components, one served by an outcome that passes both filters and
\* one by the fallback to its strongest outcome
C11_Witness ==
    /\ SelSelected /\ opIn.max_outcomes_per_component = 1
    /\ Len(opIn.loadings.columns) = 2 /\ Len(opOut.value.v) = 2
    /\ \E f \in SelFeatures : SelPasses(f, primary_component_col(1))
    /\ ~\E f \in SelFeatures : SelPasses(f, primary_component_col(2))

\* C12: when the thresholds do not satisfy 0 <= max_cross < min_primary <= 1
\* the step raises a ValueError and leaves the Context without a
\* key-outcome list.
C12_InvalidThresholdsRejected ==
    (opOut.done /\ opIn.fn = "select_key_outcomes" /\ ~SelThresholdsValid) =>
        /\ opOut.err # NoErr /\ opOut.err.type = "ValueError"
        /\ opOut.value = PyNone

\* max_cross_loading 0.5 with min_primary_loading 0.35 was rejected
C12_Witness ==
    /\ opOut.done /\ opIn.fn = "select_key_outcomes"
    /\ opIn.maximum_cross_loading = 500 /\ opIn.minimal_primary_loading = 350
    /\ opOut.err.type = "ValueError" /\ opOut.value = PyNone


\* the number of ways to pick one value from each parameter's list
ProductOfLengths(config) ==
    Cardinality({pick \in [DOMAIN config.parameters -> 1..3] :
        \A i \in DOMAIN config.parameters : pick[i] <= Len(config.parameters[i].values)})

WithConstraint(config, c) ==
    OrchestrationConfig(config.parameters, Append(config.constraints, c))

\* C13: count_configs is the product of the lengths of the parameter value
\* lists whatever the constraints are (4 for two parameters of two values
\* each); the number of valid combinations never exceeds it, and a sweep
\* with one more constraint never has more valid combinations.
C13_CountsAndConstraints ==
    (opIn.fn = "orchestrator" /\ opOut.done) =>
        LET config == opIn.config IN
        /\ opIn.method = "count_configs" =>
              /\ opOut.value = PyInt(ProductOfLengths(config))
              /\ (/\ Len(config.parameters) = 2
                  /\ \A i \in 1..2 : Len(config.parameters[i].values) = 2)
                 => opOut.value = PyInt(4)
        /\ opIn.method = "get_valid_config_count" =>
              /\ opOut.value.v <= count_configs(config)
              /\ \A c \in OrchConstraints :
                    get_valid_config_count(WithConstraint(config, c)) <= opOut.value.v

\* a sweep of two parameters whose one constraint leaves some combinations
\* and removes others
C13_Witness ==
    /\ opIn.fn = "orchestrator" /\ opOut.done
    /\ opIn.method = "get_valid_config_count"
    /\ Len(opIn.config.parameters) = 2
    /\ Len(opIn.config.constraints) = 1
    /\ opOut.value.v > 0
    /\ opOut.value.v < count_configs(opIn.config)

\* the loop of run has seen the fit of combination opOut.i fail
FitOfCombinationFailed ==
    /\ opIn.fn = "orchestrator"
    /\ opOut.fits > 0
    /\ pc = "idle"
    /\ opOut.phase # "fitting"
    /\ outcome \notin {Pending, NoErr}

\* C14 as stated: when the fit of a combination fails the run ends with the
\* error of that fit, no later combination is fitted and the caller has
\* received no result at all.
C14_FailedFitLeavesNoResults ==
    FitOfCombinationFailed =>
        /\ opOut.done /\ opOut.err = outcome
        /\ opOut.fits = opOut.i
        /\ ~ENABLED NextOrch
        /\ opOut.received = <<>>

\* C14: when the fit of a combination fails the run ends with the error of
\* that fit and no later combination is fitted; the caller of run_all
\* receives no result at all, the caller that iterates run has received the
\* results of the combinations before the failed one and receives no more.
C14_FailedFitAbortsRun ==
    FitOfCombinationFailed =>
        /\ opOut.done /\ opOut.err = outcome
        /\ opOut.fits = opOut.i
        /\ ~ENABLED NextOrch
        /\ opIn.method = "run_all" => opOut.received = <<>>
        /\ opIn.method = "run" => Len(opOut.received) = opOut.i - 1

\* run_all: the second of three combinations fails after the first was fitted
C14_Witness ==
    /\ FitOfCombinationFailed
    /\ opIn.method = "run_all"
    /\ opOut.i = 2
    /\ Len(_get_valid_configs(opIn.config)) = 3
    /\ opOut.fits = 2
    /\ opOut.received = <<>>


\* the results of the call that pass both floors, as the claims state them
MeetsFloors(r) ==
    /\ \A j \in DOMAIN r.metrics.cluster_sizes_pct :
          r.metrics.cluster_sizes_pct[j] >= opIn.config.min_segment_size_percent
    /\ ~r.metrics.silhouette_mean.nan
    /\ r.metrics.silhouette_mean.v >= opIn.config.min_silhouette

\* the score of the claim, in units of 10^-8
ClaimScore(r) ==
    LET sizes == r.metrics.cluster_sizes_pct
        sil == IF 2 * r.metrics.silhouette_mean.v < 1000
               THEN 2 * r.metrics.silhouette_mean.v ELSE 1000
        spread == CHOOSE d \in {sizes[a] - sizes[b] : a, b \in DOMAIN sizes} :
                     \A a, b \in DOMAIN sizes : sizes[a] - sizes[b] <= d
    IN opIn.config.silhouette_weight * sil * 100
       + opIn.config.balance_weight * (100000 - spread)

\* C15: select_best never returns a result below a floor, whatever the
\* scores; when no result meets both floors it raises the
\* no-configuration-meets-constraints error.
C15_FloorsAreHard ==
    (opIn.fn = "select_best" /\ opOut.done) =>
        LET none == \A i \in DOMAIN opIn.all_results : ~MeetsFloors(opIn.all_results[i]) IN
        /\ none => /\ opOut.err = Raised("ValueError", "No configurations meet constraints")
                   /\ opOut.value = PyNone
        /\ ~none => /\ opOut.err = NoErr
                    /\ \E i \in DOMAIN opIn.all_results : opOut.value = opIn.all_results[i]
                    /\ MeetsFloors(opOut.value)

\* a result below the size floor outscores the one that is returned
C15_Witness ==
    /\ opIn.fn = "select_best" /\ opOut.done /\ opOut.err = NoErr
    /\ opIn.config = DefaultSelectionRules
    /\ \E i \in DOMAIN opIn.all_results :
          /\ ~MeetsFloors(opIn.all_results[i])
          /\ ~opIn.all_results[i].metrics.silhouette_mean.nan
          /\ ClaimScore(opIn.all_results[i]) > ClaimScore(opOut.value)

\* C16: among the results that pass both floors select_best returns one of
\* maximal score, and of those with the maximal score the first in the
\* input list.
C16_FirstOfTheBest ==
    (opIn.fn = "select_best" /\ opOut.done /\ opOut.err = NoErr) =>
        \E i \in DOMAIN opIn.all_results :
            /\ opOut.value = opIn.all_results[i]
            /\ MeetsFloors(opIn.all_results[i])
            /\ \A j \in DOMAIN opIn.all_results :
                  MeetsFloors(opIn.all_results[j]) =>
                      /\ ClaimScore(opIn.all_results[j]) <= ClaimScore(opIn.all_results[i])
                      /\ ClaimScore(opIn.all_results[j]) = ClaimScore(opIn.all_results[i])
                         => i <= j

\* two results of different metrics tie at the top and a third scores less
C16_Witness ==
    /\ opIn.fn = "select_best" /\ opOut.done /\ opOut.err = NoErr
    /\ Len(opIn.all_results) = 3
    /\ opOut.value = opIn.all_results[2]
    /\ MeetsFloors(opIn.all_results[1]) /\ MeetsFloors(opIn.all_results[3])
    /\ ClaimScore(opIn.all_results[1]) < ClaimScore(opIn.all_results[2])
    /\ ClaimScore(opIn.all_results[3]) = ClaimScore(opIn.all_results[2])
    /\ opIn.all_results[3].metrics # opIn.all_results[2].metrics


\* the conditions of the three rules, as the claim states them
ZoneConditions ==
    LET opp_threshold == opIn.config.opportunity_threshold
        imp_threshold == opIn.config.importance_threshold
        sat_threshold == opIn.config.satisfaction_threshold
    IN (UNDERSERVED :> (opIn.opportunity >= opp_threshold /\ opIn.sat_tb < sat_threshold))
       @@ (TABLE_STAKES :> (opIn.imp_tb >= imp_threshold /\ opIn.sat_tb >= sat_threshold))
       @@ (OVERSERVED :> (/\ opIn.opportunity < opp_threshold
                          /\ opIn.sat_tb >= sat_threshold
                          /\ opIn.imp_tb < imp_threshold))

\* C17: classify_outcome yields exactly one zone; the conditions of
\* UNDERSERVED, TABLE_STAKES and OVERSERVED are pairwise exclusive, the zone
\* is the one whose condition holds in whatever order the rules are tried,
\* and APPROPRIATELY_SERVED when none holds.
C17_OneZoneWhateverTheOrder ==
    (opIn.fn = "classify_outcome" /\ opOut.done) =>
        /\ opOut.err = NoErr
        /\ opOut.value \in {UNDERSERVED, OVERSERVED, TABLE_STAKES, APPROPRIATELY_SERVED}
        /\ \A z1, z2 \in DOMAIN ZoneConditions :
              (ZoneConditions[z1] /\ ZoneConditions[z2]) => z1 = z2
        /\ \A z \in DOMAIN ZoneConditions : ZoneConditions[z] <=> opOut.value = z
        /\ (\A z \in DOMAIN ZoneConditions : ~ZoneConditions[z])
              <=> opOut.value = APPROPRIATELY_SERVED

\* important, satisfied and of low opportunity: TABLE_STAKES, though two of
\* the three tests of OVERSERVED hold
C17_Witness ==
    /\ opIn.fn = "classify_outcome" /\ opOut.done
    /\ opIn.config = DefaultZoneRules
    /\ opIn.imp_tb = 60000 /\ opIn.sat_tb = 50000 /\ opIn.opportunity = 9990
    /\ opOut.value = TABLE_STAKES


\* C19: after every successful fit, reading metrics does not raise; when
\* num_segments <= 1 or the sample count is not greater than num_segments
\* the silhouettes are NaN, and in every case there are one size percentage
\* per segment id 0..k-1 and their minimum.
C19_MetricsNeverRaise ==
    (fitted /\ pc = "idle") =>
        LET m == metrics(cfg, fitted, context)
            n == Len(TableAt(context, DERIVED_TABLE_RESPONSES_OPP).rows)
            k == cfg.num_segments
        IN /\ m.err = NoErr
           /\ (k <= 1 \/ ~(n > k)) =>
                 /\ m.value.silhouette_mean = "nan"
                 /\ \A j \in DOMAIN m.value.silhouette_by_cluster :
                       m.value.silhouette_by_cluster[j] = "nan"
           /\ DOMAIN m.value.cluster_sizes_pct = 1..k
           /\ \E j \in 1..k : m.value.cluster_sizes_pct[j] = m.value.min_cluster_pct
           /\ \A j \in 1..k : m.value.cluster_sizes_pct[j].num >= m.value.min_cluster_pct.num


\* the messages of _validate_responses, one for each of its rules
ValidationRuleMessages ==
    {"responses_df must be DataFrame", "responses_df cannot be empty",
     "No satisfaction columns found", "No importance columns found",
     "Mismatch: satisfaction vs importance columns",
     "Need at least num_segments respondents"}

\* the texts an exception carries to its catcher: its message and, when it
\* was raised from another exception, the message of that one
ErrorTexts(e) == {e.msg} \cup (IF "cause" \in DOMAIN e THEN {e.cause.msg} ELSE {})

\* C20: every failure that reaches the caller of fit identifies the named
\* pipeline stage that failed (a step failure, wrapped by fit) or the
\* validation rule that rejected the input.
C20_FailureNamesStageOrRule ==
    (pc = "idle" /\ outcome \notin {Pending, NoErr}) =>
        IF "cause" \in DOMAIN outcome
        THEN ran # <<>> /\ ran[Len(ran)] \in ErrorTexts(outcome)
        ELSE outcome.msg \in ValidationRuleMessages


LoadedRecords == SelectSeq(opIn.file_handle, LAMBDA line : line.kind = "record")
HasDuplicatePair ==
    \E i, j \in DOMAIN LoadedRecords :
        /\ i # j
        /\ LoadedRecords[i].respondentId = LoadedRecords[j].respondentId
        /\ LoadedRecords[i].outcomeId = LoadedRecords[j].outcomeId
AscendingIds(cols) == \A i, j \in DOMAIN cols : i < j => cols[i].id < cols[j].id
C21_Loaded ==
    /\ opIn.fn = "_load_from_file" /\ opOut.done /\ opOut.err = NoErr
    /\ Len(opOut.value.rows) = 2
    /\ opIn.file_handle[1].kind = "record" /\ opIn.file_handle[1].outcomeId = 2

\* C22: after a successful fit (the respondent ids of the input are
\* unique), assignments gives every respondent the label its row of the
\* clustered table holds, the full table joined with the labels holds that
\* same label for the respondent and none is missing, and for every segment
\* the number of respondents assigned to it is the count that the model's
\* size_pct and the metrics' cluster size of that segment are computed from.
ClusteredLabel(r) ==
    LET rows == TableAt(context, DERIVED_TABLE_RESPONSES_OPP).rows
    IN rows[CHOOSE i \in DOMAIN rows : rows[i][RESPONDENT_ID] = r][SEGMENT_ID]
Choices(config) ==
    {f \in [DOMAIN config.parameters -> 1..3] :
        \A p \in DOMAIN f : f[p] \in DOMAIN config.parameters[p].values}
CombinationOf(config, f) ==
    [name \in {config.parameters[p].name : p \in DOMAIN f} |->
        LET p == CHOOSE q \in DOMAIN f : config.parameters[q].name = name
        IN config.parameters[p].values[f[p]]]
Before(f, g) == \E p \in DOMAIN f : f[p] < g[p] /\ \A q \in 1..(p - 1) : f[q] = g[q]
\* values of different parameters are compared as numbers: whole-number
\* parameters are held as integers, the others in thousandths
Holds(constraint, kw) ==
    LET num(name) == IF name \in IntegerParameters THEN 1000 * kw[name] ELSE kw[name] IN
    ({constraint.left, constraint.right} \subseteq DOMAIN kw) =>
        CASE constraint.type = "less_than" -> num(constraint.left) < num(constraint.right)
          [] constraint.type = "greater_than" -> num(constraint.left) > num(constraint.right)
          [] constraint.type = "not_equal" -> num(constraint.left) # num(constraint.right)
ValidChoices(config) ==
    {f \in Choices(config) :
        \A i \in DOMAIN config.constraints :
            Holds(config.constraints[i], CombinationOf(config, f))}
\* the n-th valid combination in product order
ExpectedCombination(config, n) ==
    CombinationOf(config,
        CHOOSE f \in ValidChoices(config) :
            Cardinality({g \in ValidChoices(config) : Before(g, f)}) = n - 1)

\* C23: the i-th fit of a run uses the i-th element, in product order, of
\* the cartesian product of the parameter lists that satisfies every
\* constraint (strict comparisons; a constraint on an absent parameter is
\* satisfied), the results delivered so far are those of the first
\* combinations in that order, and a run that ends without an error has
\* delivered one result for each of them.
C23_RunsValidCombinationsInOrder ==
    (opIn.fn = "orchestrator" /\ opIn.method \in {"run", "run_all"}) =>
        LET config == opIn.config
            delivered == IF opOut.phase = "returned" \/ opIn.method = "run"
                         THEN opOut.received ELSE opOut.results
        IN /\ opOut.phase \in {"fit", "fitting"} =>
                 /\ opOut.i <= Cardinality(ValidChoices(config))
                 /\ \A name \in DOMAIN ExpectedCombination(config, opOut.i) :
                       cfg[name] = ExpectedCombination(config, opOut.i)[name]
                 /\ \A name \in (DOMAIN cfg) \ DOMAIN ExpectedCombination(config, opOut.i) :
                       cfg[name] = DefaultConfig[name]
           /\ Len(delivered) <= Cardinality(ValidChoices(config))
           /\ \A n \in DOMAIN delivered :
                 delivered[n].params = ExpectedCombination(config, n)
           /\ opOut.phase = "returned" =>
                 Len(delivered) = Cardinality(ValidChoices(config))
\* a run over two lists of two values each, with a less_than constraint
\* that an equal pair fails, has returned its two results
C23_Witness ==
    /\ opIn.fn = "orchestrator" /\ opIn.method = "run_all"
    /\ opOut.phase = "returned"
    /\ Len(opIn.config.parameters) = 2
    /\ count_configs(opIn.config) = 4
    /\ Len(opIn.config.constraints) = 1
    /\ opIn.config.constraints[1].type = "less_than"
    /\ Len(opOut.received) = 2
    /\ opOut.received[2].params["min_primary_loading"] = 500

\* What a component may contribute under a limit: up to limit outcomes,
\* each once, in descending order of absolute loading, none of them weaker
\* than an outcome that passes both filters and is left out.
SelContributions(comp, limit) ==
    {c \in UNION {Perms(S) : S \in {T \in SUBSET SelFeatures : Cardinality(T) <= limit}} :
        /\ \A i, j \in DOMAIN c : i < j => SelStrength(c[i], comp) >= SelStrength(c[j], comp)
        /\ \A i \in DOMAIN c : \A g \in SelFeatures \ Range(c) :
              SelPasses(g, comp) => SelStrength(g, comp) <= SelStrength(c[i], comp)}
\* the list is the contributions of the components in component order,
\* each outcome kept where it is first seen
SelCombinedUnder(limit) ==
    \E cs \in [DOMAIN opIn.loadings.columns -> UNION {Perms(S) : S \in SUBSET SelFeatures}] :
        /\ \A k \in DOMAIN cs : cs[k] \in SelContributions(opIn.loadings.columns[k], limit)
        /\ opOut.value.v = Dedup(ConcatAll(cs))
NoDuplicates(s) == \A i, j \in DOMAIN s : i # j => s[i] # s[j]

\* C24, as stated: every component contributes at most
\* max_outcomes_per_component outcomes, taken in descending order of
\* absolute loading; the list holds the contributions in component order,
\* then rank, without duplicates.
C24_AtMostMaxPerComponent ==
    SelSelected =>
        /\ opOut.err = NoErr
        /\ NoDuplicates(opOut.value.v)
        /\ SelCombinedUnder(opIn.max_outcomes_per_component)

\* C24, amended: the limit of a component is max_outcomes_per_component,
\* and 1 when max_outcomes_per_component is below 1 (the fallback to the
\* strongest outcome).
C24_AtMostMaxOrOnePerComponent ==
    SelSelected =>
        /\ opOut.err = NoErr
        /\ NoDuplicates(opOut.value.v)
        /\ SelCombinedUnder(Max(opIn.max_outcomes_per_component, 1))

\* two outcomes pass both filters for the only component, the limit is 1
\* and the stronger one alone was selected
C24_Witness ==
    /\ SelSelected /\ opIn.max_outcomes_per_component = 1
    /\ Len(opIn.loadings.columns) = 1
    /\ Cardinality({f \in SelFeatures : SelPasses(f, primary_component_col(1))}) = 2
    /\ SelStrength(importance_col(1), primary_component_col(1))
          < SelStrength(importance_col(2), primary_component_col(1))
    /\ opOut.value.v = <<importance_col(2)>>

\* C25: fit puts the caller's table itself into the Context (set_primary
\* keeps the object, it makes no copy), so the table the caller holds is
\* the primary table of the Context.  Throughout a sweep, whatever the
\* number of fits and of steps run so far, that table has the rows, columns
\* and values the caller passed, and no step changes the primary table of
\* the Context it runs on.
C25_InputTableNeverWritten ==
    /\ (opIn.fn = "orchestrator" /\ context # PyNone) => context.responses = opIn.responses
    /\ pc = "run" =>
          \A n \in DOMAIN _build_pipeline(cfg) :
              \A r \in StepRun(_build_pipeline(cfg)[n], context) :
                  r.ctx.responses = context.responses
\* a sweep of four combinations has been fitted on the table and has
\* returned
C25_Witness ==
    /\ opIn.fn = "orchestrator" /\ opIn.method = "run_all"
    /\ opOut.phase = "returned" /\ opOut.fits = 4
    /\ Len(opOut.received) = 4
    /\ context.responses = opIn.responses
    /\ DERIVED_TABLE_RESPONSES_WIDE_SEG \in DOMAIN context.tables

\* no result of the run has a greater score than r
JunoMaximalAmong(r, results) ==
    \A i \in DOMAIN results :
        ~(~results[i].score.nan /\ ~r.score.nan /\ results[i].score.v > r.score.v)
\* r scores at least as much as s: false when either score is nan
JunoAtLeast(r, s) == ~r.score.nan /\ ~s.score.nan /\ r.score.v >= s.score.v

\* C26: run_all returns the results of the run, each once, every result
\* scoring at least as much as the one behind it; get_best returns a result
\* that no result of the run outscores; get_best_per_segment_count has an
\* entry for each num_segments of the run, a result with that num_segments
\* that no other result with that num_segments outscores.
C26_SortedAndBest ==
    (opIn.fn = "juno" /\ opOut.done) =>
        LET results == run_scored(opIn.config, opIn.fits) IN
        /\ opIn.method = "run_all" =>
              /\ Len(opOut.value) = Len(results)
              /\ \E p \in Perms(DOMAIN results) :
                    \A i \in DOMAIN results : opOut.value[i] = results[p[i]]
              /\ \A i \in 1..(Len(opOut.value) - 1) :
                    JunoAtLeast(opOut.value[i], opOut.value[i + 1])
        /\ (opIn.method = "get_best" /\ results # <<>>) =>
              /\ opOut.err = NoErr
              /\ opOut.value \in Range(results)
              /\ JunoMaximalAmong(opOut.value, results)
        /\ (opIn.method = "get_best_per_segment_count") =>
              /\ opOut.err = NoErr
              /\ DOMAIN opOut.value = {results[i].params.num_segments : i \in DOMAIN results}
              /\ \A k \in DOMAIN opOut.value :
                    LET WithK(r) == r.params.num_segments = k IN
                    /\ opOut.value[k] \in Range(results)
                    /\ WithK(opOut.value[k])
                    /\ JunoMaximalAmong(opOut.value[k], SelectSeq(results, WithK))

\* C27: with weights that are not negative and sum to 1, the score of every
\* result that run_all returns is a number from 0 to 1.
C27_ScoreInUnitInterval ==
    (/\ opIn.fn = "juno" /\ opOut.done /\ opIn.method = "run_all"
     /\ opIn.config.scoring.silhouette_weight >= 0
     /\ opIn.config.scoring.balance_weight >= 0
     /\ opIn.config.scoring.silhouette_weight + opIn.config.scoring.balance_weight = 1000) =>
        \A i \in DOMAIN opOut.value :
            /\ ~opOut.value[i].score.nan
            /\ 0 <= opOut.value[i].score.v
            /\ opOut.value[i].score.v <= 100000000

\* C28: once a fit call has been made, model, metrics and assignments are
\* readable only when the most recent fit call succeeded, and then they are
\* those of the table of that call; after a fit call that failed, in the
\* validation or in a step, none of the three is readable.
C28_FailedFitHidesEarlierResults ==
    (pc = "idle" /\ nFit > 0) =>
        /\ outcome # NoErr =>
              /\ model(fitted, context).err # NoErr
              /\ metrics(cfg, fitted, context).err # NoErr
              /\ assignments(fitted, context).err # NoErr
        /\ outcome = NoErr =>
              /\ ArgShape(context.responses) = arg
              /\ DOMAIN assignments(fitted, context).value.assignments
                    = {context.responses.rows[i][RESPONDENT_ID] :
                          i \in DOMAIN context.responses.rows}

\* C29: in the strategy tools, a segment whose strategy a record_strategy
\* call wrote holds a strategy other than "sustaining" only if
\* ask_viability_question was called for that segment before that call (the
\* answers kept in the strategy are then not empty); and a record_strategy
\* call that returned the error text left every segment's strategy as it was.
RecordRefused ==
    /\ opOut.last.tool = "record_strategy"
    /\ opOut.err = NoErr
    /\ opOut.value[1] = "ERROR: Cannot record strategy '"
C29_NonSustainingOnlyAfterQuestion ==
    /\ \A i \in DOMAIN opOut.segments :
          LET s == opOut.segments[i]
          IN  (/\ s.segment_id \in opOut.recorded
               /\ s.strategy # PyNone
               /\ s.strategy.name # "sustaining")
              => /\ s.segment_id \in opOut.asked
                 /\ s.strategy.viability_answers # << >>
    /\ RecordRefused => opOut.segments = opOut.last.before
C29_Witness ==
    /\ \E i \in DOMAIN opOut.segments :
          /\ opOut.segments[i].segment_id \in opOut.recorded
          /\ opOut.segments[i].strategy # PyNone
          /\ opOut.segments[i].strategy.name = "differentiated"
    /\ RecordRefused
    /\ opOut.last.strategy_name = "differentiated"

\* C30: the workflow emits its completion event only when every segment has
\* a recorded name; a naming event names the first segment without a name;
\* after each human response handle_response emits the next naming event or
\* the completion event; and a run with no event left to handle has stopped
\* with every segment named.
EveryNamed == \A i \in DOMAIN opIn.segment_ids : opIn.segment_ids[i] \in DOMAIN opOut.names
FirstWithoutName(segment_id) ==
    \E i \in DOMAIN opIn.segment_ids :
        /\ opIn.segment_ids[i] = segment_id
        /\ segment_id \notin DOMAIN opOut.names
        /\ \A j \in 1..(i - 1) : opIn.segment_ids[j] \in DOMAIN opOut.names
C30_CompletionOnlyWhenAllNamed ==
    opOut.event.type \in {"SynthesisCompleteEvent", "StopEvent"} => EveryNamed
C30_NamesFirstWithoutName ==
    opOut.event.type = "NamingPhaseEvent" => FirstWithoutName(opOut.event.segment_id)
C30_ResponseEmitsNamingOrCompletion ==
    opOut.step = "handle_response"
        => opOut.event.type \in {"NamingPhaseEvent", "SynthesisCompleteEvent"}
C30_NeverStopsUnnamed ==
    ~ENABLED NextSynthesis => EveryNamed
C30_NamesAllBeforeStopping ==
    /\ C30_CompletionOnlyWhenAllNamed
    /\ C30_NamesFirstWithoutName
    /\ C30_ResponseEmitsNamingOrCompletion
    /\ C30_NeverStopsUnnamed

====
